---- MODULE Spec2Model ----
(***************************************************************************)
(* Verification model of the Variably Go SDK: the bounded LRU/TTL cache    *)
(* (cache.go), the cache-aside evaluator (evaluator.go), the typed         *)
(* accessors of the client (variably.go), the retrying HTTP transport and  *)
(* its error classification (HTTP client, errors.go).                      *)
(*                                                                         *)
(* Strings are sequences of tokens.  The tokens form a prefix-free code    *)
(* ("flag", "gate", "user", "env", "prod", "a", ":"), so two token         *)
(* sequences are equal exactly when the Go strings they spell are equal,   *)
(* and fmt.Sprintf is concatenation.                                       *)
(***************************************************************************)
EXTENDS Integers, Sequences, FiniteSets, TLC

\* ---------------------------------------------------------------- bounds
MaxCap == 2        \* largest capacity a cache is constructed with
MaxTime == 2       \* the clock runs from 0 to MaxTime
MaxOps == 4        \* number of recency-touching cache calls that are followed
DefaultTTL == 1    \* configured default TTL, in clock ticks
MaxRetry == 2      \* largest configured retryAttempts
MaxStrLen == 3     \* longest flag key / user id whose key is derived
MaxCalls == 2      \* number of logical calls one HTTPClient is given
MaxAttemptNo == 40 \* largest configured RetryAttempts whose backoff is computed

VARIABLES
    \* MemoryCache (cache.go:12-18) and the clock
    maxSize,        \* MemoryCache.maxSize
    items,          \* MemoryCache.items: key -> [value, expiration]
    lruList,        \* MemoryCache.lruList: keys, front (index 1) = most recent
    pendingDelete,  \* keys of the `go c.Delete(key)` goroutines not yet run
    now,            \* time.Now()
    \* history of the cache calls
    tick,           \* number of recency-touching calls so far
    touch,          \* key -> tick of its last touch (Set, or Get hit)
    lastOp,         \* the last cache call and what it returned
    \* Evaluator
    lastEval,       \* the last evaluation call and what it returned
    \* HTTPClient.makeRequest
    retryAttempts,  \* HTTPClient.retryAttempts
    pc,             \* position of the logical call
    attempt,        \* loop variable of makeRequest
    hasResult,      \* the call passes a non-nil result to decode into
    reqErr,         \* err of makeRequest: what the last doRequest returned
    lastErr,        \* lastErr of makeRequest
    lastResp,       \* what the last attempt received from the network
    seen,           \* classes of the outcomes of the call's attempts so far
    ctxDone,        \* the caller's context is cancelled / past its deadline
    result,         \* what makeRequest returned
    nAttempts,      \* doRequest calls of the current logical call
    nWaits,         \* completed backoff waits of the current logical call
    lastWait,       \* backoff of the last completed wait, in milliseconds
    metrics,        \* MetricsCollector: apiCalls and errorCount
    reported,       \* history: logical calls started, attempts made and failed
    flagValues,     \* MockClient.flagValues
    gateValues,     \* MockClient.gateValues
    mockMetrics,    \* MockClient.metrics: flagsEvaluated and gatesEvaluated
    lastMock,       \* history: the last evaluation of the MockClient
    slept,          \* the last call of calculateBackoff: attempt, draw, delay
    evalProc,       \* per goroutine: where it is inside Evaluator.EvaluateFlag
    fetchHist,      \* history: tick of the last clear, lookup tick per entry
    loadSt,         \* loadFromFile: position, its `now`, keys left, its `ttl`
    lockSt,         \* goroutine -> where it is inside a PersistentCache method
    metSt,          \* goroutine -> where it is inside a MetricsCollector method
    lastMetrics,    \* the Metrics the last GetMetrics returned
    closeSt,        \* closeMux, the goroutines inside Close, what the calls did
    \* cache key derivation
    keyIn,          \* the inputs of the last key derivation
    cacheKey,       \* the key derived from keyIn
    \* PersistentCache (cache.go:168-172) and the file system
    files,          \* file name -> content, for filePath and filePath + ".tmp"
    saveMutex,      \* PersistentCache.mutex: the goroutine holding it, or 0
    ppc,            \* goroutine -> its position in Set/Delete/Clear/sweep
    snap,           \* goroutine -> the local `items` of its saveToFile
    \* history of the persistent cache
    snapVer,        \* goroutine -> the tick at which it copied the items
    fileVer,        \* the tick at which the published state was copied
    \* VariablyClient lifecycle and the goroutine of CacheManager.StartCleanup
    closed,         \* VariablyClient.closed
    stopCh,         \* VariablyClient.stopCh: "open" or "closed"
    sweepPc,        \* position of StartCleanup: "select", "sweep", "returned"
    tickPending,    \* ticker.C holds a tick that was not received yet
    tickerOn,       \* the ticker of StartCleanup was not stopped yet
    \* MemoryCache.mutex and the goroutines inside the cache's methods
    rwReaders,      \* goroutines holding MemoryCache.mutex.RLock()
    rwWriter,       \* the goroutine holding MemoryCache.mutex.Lock(), or 0
    cpc,            \* goroutine -> its position inside a MemoryCache method
    ckey            \* goroutine -> the key its call was given

cacheVars == <<maxSize, items, lruList, pendingDelete, now>>
histVars == <<tick, touch, lastOp>>
httpVars == <<retryAttempts, pc, attempt, hasResult, reqErr, lastErr, lastResp,
              seen, ctxDone, result, nAttempts, nWaits, lastWait, metrics, reported,
              slept>>
keyVars == <<keyIn, cacheKey>>
persistVars == <<files, saveMutex, ppc, snap, snapVer, fileVer>>
sweepVars == <<closed, stopCh, sweepPc, tickPending, tickerOn>>
lockVars == <<rwReaders, rwWriter, cpc, ckey>>
mockVars == <<flagValues, gateValues, mockMetrics, lastMock>>
fetchVars == <<evalProc, fetchHist>>
stepVars == <<loadSt, lockSt, metSt, lastMetrics, closeSt>>
vars == <<maxSize, items, lruList, pendingDelete, now, tick, touch, lastOp,
          lastEval, retryAttempts, pc, attempt, hasResult, reqErr, lastErr,
          lastResp, seen, ctxDone, result, nAttempts, nWaits, lastWait, keyIn,
          cacheKey, files, saveMutex, ppc, snap, snapVer, fileVer, closed, stopCh,
          sweepPc, tickPending, tickerOn, rwReaders, rwWriter, cpc, ckey, metrics,
          reported, flagValues, gateValues, mockMetrics, lastMock, slept,
          evalProc, fetchHist, loadSt, lockSt, metSt, lastMetrics, closeSt>>

\* ------------------------------------------------------------- utilities
None == "none"

Min(a, b) == IF a < b THEN a ELSE b

Without(f, k) == [x \in (DOMAIN f) \ {k} |-> f[x]]

With(f, k, v) == [x \in (DOMAIN f) \cup {k} |-> IF x = k THEN v ELSE f[x]]

\* list.Remove
ListRemove(l, k) == SelectSeq(l, LAMBDA x : x # k)

\* list.PushFront
PushFront(l, k) == <<k>> \o l

\* list.MoveToFront
MoveToFront(l, k) == <<k>> \o ListRemove(l, k)

\* list.Back
Back(l) == l[Len(l)]

\* ------------------------------------------------------------ cache keys
Environment == <<"prod">>

\* fmt.Sprintf("flag:%s:user:%s:env:%s", flagKey, userContext.UserID, env)
generateCacheKey(flagKey, userID, env) ==
    <<"flag", ":">> \o flagKey \o <<":", "user", ":">> \o userID
        \o <<":", "env", ":">> \o env

\* fmt.Sprintf("gate:%s:user:%s:env:%s", gateKey, userContext.UserID, env)
generateGateCacheKey(gateKey, userID, env) ==
    <<"gate", ":">> \o gateKey \o <<":", "user", ":">> \o userID
        \o <<":", "env", ":">> \o env

\* --------------------------------------------------- MemoryCache, as data
\* A cache value is [items, lruList]; every operator below is the body of the
\* method of the same name, run under the cache's lock at clock value t.

\* make(map[string]*cacheItem)
EmptyItems == [x \in {} |-> None]

\* MemoryCache.Size
Size(its) == Cardinality(DOMAIN its)

\* the loop of evictIfNeeded: drop the back of the list while over capacity
RECURSIVE evictIfNeeded(_, _, _)
evictIfNeededFront(its, l, cap) ==
    IF Size(its) > cap /\ l # <<>>
    THEN evictIfNeeded(Without(its, l[1]), ListRemove(l, l[1]), cap)
    ELSE [items |-> its, lruList |-> l]

evictIfNeededOnce(its, l, cap) ==
    IF Size(its) > cap + 1 /\ l # <<>>
    THEN evictIfNeeded(Without(its, Back(l)), ListRemove(l, Back(l)), cap)
    ELSE [items |-> its, lruList |-> l]

evictIfNeeded(its, l, cap) ==
    IF Size(its) > cap /\ l # <<>>
    THEN evictIfNeeded(Without(its, Back(l)), ListRemove(l, Back(l)), cap)
    ELSE [items |-> its, lruList |-> l]

\* time.Now().After(item.expiration)
ExpiredBad(item, t) == FALSE

Expired(item, t) == t > item.expiration

\* FlagResult{}, what Get returns with found = false
ZeroResult == [Key |-> <<>>, Value |-> <<"nil">>, Reason |-> "", Error |-> None,
               EvaluatedAt |-> 0, CacheHit |-> FALSE]

\* MemoryCache.Get: found, the value, the list after the move to front, and
\* whether the removal goroutine was started
Get(its, l, key, t) ==
    IF key \notin DOMAIN its
    THEN [found |-> FALSE, value |-> ZeroResult, lruList |-> l, spawn |-> FALSE]
    ELSE IF Expired(its[key], t)
    THEN [found |-> FALSE, value |-> ZeroResult, lruList |-> l, spawn |-> TRUE]
    ELSE [found |-> TRUE, value |-> its[key].value,
          lruList |-> MoveToFront(l, key), spawn |-> FALSE]

\* Set where a ttl of zero means an entry that never expires
SetPermanent(its, l, key, res, ttl, t, cap, dttl) ==
    LET item == [value |-> res, expiration |-> IF ttl = 0 THEN 1000 ELSE t + ttl]
    IN  IF key \in DOMAIN its
        THEN [items |-> With(its, key, item), lruList |-> MoveToFront(l, key)]
        ELSE evictIfNeeded(With(its, key, item), PushFront(l, key), cap)

\* MemoryCache.Set
Set(its, l, key, res, ttl, t, cap, dttl) ==
    LET ttl2 == IF ttl = 0 THEN dttl ELSE ttl
        item == [value |-> res, expiration |-> t + ttl2]
    IN  IF key \in DOMAIN its
        THEN [items |-> With(its, key, item), lruList |-> MoveToFront(l, key)]
        ELSE evictIfNeeded(With(its, key, item), PushFront(l, key), cap)

\* MemoryCache.Delete
Delete(its, l, key) ==
    IF key \in DOMAIN its
    THEN [items |-> Without(its, key), lruList |-> ListRemove(l, key)]
    ELSE [items |-> its, lruList |-> l]

\* MemoryCache.Clear
Clear == [items |-> EmptyItems, lruList |-> <<>>]

\* MemoryCache.CleanupExpired
CleanupExpired(its, l, t) ==
    LET expiredKeys == {k \in DOMAIN its : Expired(its[k], t)}
    IN  [items |-> [k \in (DOMAIN its) \ expiredKeys |-> its[k]],
         lruList |-> SelectSeq(l, LAMBDA x : x \notin expiredKeys)]

\* CacheManager.Set: a zero ttl becomes config.TTL before the cache sees it
ManagerSet(its, l, key, res, ttl, t, cap, dttl) ==
    Set(its, l, key, res, IF ttl = 0 THEN dttl ELSE ttl, t, cap, dttl)
\* ------------------------------------------------------- inputs of the cache
FlagKeys == {<<"a">>, <<"a", ":", "user">>}
UserIDs == {<<"a">>, <<"user", ":", "a">>}

\* the keys the cache is called with
CacheKeys == {generateCacheKey(f, u, Environment) : f \in FlagKeys, u \in UserIDs}

BoolV(b) == <<"bool", b>>
NilV == <<"nil">>

\* FlagResult (types: Key, Value, Reason, Error, EvaluatedAt, CacheHit)
FlagResult(key, value, reason, err, at, hit) ==
    [Key |-> key, Value |-> value, Reason |-> reason, Error |-> err,
     EvaluatedAt |-> at, CacheHit |-> hit]

\* the results a direct caller stores
CacheResults == {FlagResult(<<"a">>, BoolV(b), "api_evaluation", None, 0, FALSE) :
                    b \in BOOLEAN}

\* the ttl arguments of a direct Set: the default, and a longer one
TTLs == {0, DefaultTTL + 1}

NoOp == [op |-> None, key |-> <<>>, found |-> FALSE, value |-> ZeroResult,
         present |-> FALSE, expiration |-> 0, at |-> 0, evicted |-> {},
         ttl |-> 0, via |-> None]

NoEval == [op |-> None]

\* the goroutines that call the persistent cache
Procs == {1, 2}

\* PersistentCache.filePath, and the name saveToFile writes to before the
\* rename
filePath == "path"
tempFileInPlace == filePath
tempFile == "tmp"

\* contents of a file: none, a file whose write did not complete, JSON text
NoFile == [kind |-> "none", data |-> EmptyItems]
Partial == [kind |-> "partial", data |-> EmptyItems]
JSONFile(data) == [kind |-> "json", data |-> data]

\* NewClient has returned: the channel is open, StartCleanup has made its
\* ticker and waits in its select
SweepInit ==
    /\ closed = FALSE /\ stopCh = "open"
    /\ sweepPc = "select" /\ tickPending = FALSE /\ tickerOn = TRUE

\* a goroutine that is not inside EvaluateFlag
IdleEval == [pc |-> "idle", flag |-> <<>>, key |-> <<>>, start |-> 0,
             fetched |-> FALSE,
             result |-> [Key |-> <<>>, Value |-> <<"nil">>, Reason |-> "",
                         Error |-> "none", EvaluatedAt |-> 0, CacheHit |-> FALSE]]

\* no goroutine is inside EvaluateFlag and the cache was never cleared
FetchInit ==
    /\ evalProc = [g \in {1, 2} |-> IdleEval]
    /\ fetchHist = [clearTick |-> 0, origin |-> [x \in {} |-> 0]]

\* the goroutines of the callers and the goroutine of StartCleanup
Sweeper == 3
LockProcs == Procs \cup {Sweeper}

\* a goroutine outside the methods of the PersistentCache
IdleLock == [pc |-> "idle", op |-> "none", key |-> <<>>, items |-> EmptyItems]

\* a goroutine outside the methods of the MetricsCollector
IdleMetrics == [pc |-> "idle", apiCalls |-> 0]

\* GetMetrics was not called yet
NoMetrics == [APICalls |-> 0, ErrorCount |-> 0, ErrorRate |-> 0, taken |-> FALSE]

\* NewClient has returned: closeMux is free, no goroutine is inside Close
NoClose == [mux |-> 0, pc |-> [g \in Procs |-> "idle"], closes |-> 0, panics |-> 0,
            returned |-> 0, rejected |-> FALSE]

\* no load of the file is under way
NoLoad == [pc |-> "idle", now |-> 0, rest |-> <<>>, ttl |-> 0]

\* no goroutine is inside a stepwise operation
StepInit ==
    /\ loadSt = NoLoad
    /\ lockSt = [g \in LockProcs |-> IdleLock]
    /\ metSt = [g \in Procs |-> IdleMetrics]
    /\ lastMetrics = NoMetrics
    /\ closeSt = NoClose

\* no evaluation of the MockClient made since its maps last changed
NoMock == [op |-> None, keys |-> <<>>, accessor |-> None, defaultValue |-> <<"nil">>,
           results |-> [x \in {} |-> None], returned |-> <<"nil">>]

\* NewMockClient
MockInit ==
    /\ flagValues = [x \in {} |-> None]
    /\ gateValues = [x \in {} |-> None]
    /\ mockMetrics = [flagsEvaluated |-> 0, gatesEvaluated |-> 0]
    /\ lastMock = NoMock

\* NewMetricsCollector, and no call made yet
MetricsInit ==
    /\ metrics = [apiCalls |-> 0, errorCount |-> 0]
    /\ reported = [calls |-> 0, attempts |-> 0, failed |-> 0]

\* no goroutine is inside a method of the MemoryCache
LockInit ==
    /\ rwReaders = {} /\ rwWriter = 0
    /\ cpc = [g \in Procs |-> "idle"]
    /\ ckey = [g \in Procs |-> <<>>]

\* a process with a persistent cache on a path where no file is, at rest
PersistInit ==
    /\ SweepInit
    /\ LockInit
    /\ MetricsInit
    /\ MockInit
    /\ FetchInit
    /\ StepInit
    /\ slept = [attempt |-> 0, r |-> 0, delay |-> [m |-> 0, e |-> 6]]
    /\ files = [f \in {filePath, tempFile} |-> NoFile]
    /\ saveMutex = 0
    /\ ppc = [g \in Procs |-> "idle"]
    /\ snap = [g \in Procs |-> EmptyItems]
    /\ snapVer = [g \in Procs |-> 0]
    /\ fileVer = 0

\* the variables the cache specification leaves alone
otherInit ==
    /\ PersistInit
    /\ retryAttempts = 0 /\ pc = "idle" /\ attempt = 0 /\ hasResult = FALSE
    /\ reqErr = [kind |-> "nil"] /\ lastErr = [kind |-> "nil"]
    /\ lastResp = [type |-> "none", status |-> 0, body |-> None, cause |-> None]
    /\ seen = {} /\ ctxDone = FALSE /\ result = [kind |-> "pending"]
    /\ nAttempts = 0 /\ nWaits = 0 /\ lastWait = 0
    /\ keyIn = [ns |-> "none"] /\ cacheKey = <<>>

\* NewMemoryCache
CacheInit ==
    /\ maxSize \in 0..MaxCap
    /\ items = EmptyItems
    /\ lruList = <<>>
    /\ pendingDelete = {}
    /\ now = 0
    /\ tick = 0
    /\ touch = EmptyItems
    /\ lastOp = NoOp
    /\ lastEval = NoEval

\* ------------------------------------------------ MemoryCache, as actions
\* a caller calls Set(key, res, ttl)
DoSet(key, res, ttl) ==
    /\ tick < MaxOps
    /\ LET c == Set(items, lruList, key, res, ttl, now, maxSize, DefaultTTL)
       IN  /\ items' = c.items
           /\ lruList' = c.lruList
           /\ tick' = tick + 1
           /\ touch' = [k \in DOMAIN c.items |->
                            IF k = key THEN tick + 1 ELSE touch[k]]
           /\ lastOp' = [op |-> "Set", key |-> key, found |-> FALSE,
                         value |-> res, present |-> key \in DOMAIN items,
                         expiration |-> 0, at |-> now,
                         evicted |-> ((DOMAIN items) \cup {key}) \ DOMAIN c.items,
                         ttl |-> ttl, via |-> "cache"]
    /\ UNCHANGED <<maxSize, pendingDelete, now, lastEval, httpVars, keyVars, persistVars, sweepVars, lockVars, mockVars, fetchVars, stepVars>>

\* a caller calls the manager's Set(key, res, ttl)
DoManagerSet(key, res, ttl) ==
    /\ tick < MaxOps
    /\ LET c == ManagerSet(items, lruList, key, res, ttl, now, maxSize, DefaultTTL)
       IN  /\ items' = c.items
           /\ lruList' = c.lruList
           /\ tick' = tick + 1
           /\ touch' = [k \in DOMAIN c.items |->
                            IF k = key THEN tick + 1 ELSE touch[k]]
           /\ lastOp' = [op |-> "Set", key |-> key, found |-> FALSE,
                         value |-> res, present |-> key \in DOMAIN items,
                         expiration |-> 0, at |-> now,
                         evicted |-> ((DOMAIN items) \cup {key}) \ DOMAIN c.items,
                         ttl |-> ttl, via |-> "manager"]
    /\ UNCHANGED <<maxSize, pendingDelete, now, lastEval, httpVars, keyVars, persistVars, sweepVars, lockVars, mockVars, fetchVars, stepVars>>

\* a caller calls Get(key)
DoGet(key) ==
    /\ tick < MaxOps
    /\ LET r == Get(items, lruList, key, now)
       IN  /\ lruList' = r.lruList
           /\ pendingDelete' = IF r.spawn THEN pendingDelete \cup {key}
                                ELSE pendingDelete
           /\ tick' = tick + 1
           /\ touch' = IF r.found THEN With(touch, key, tick + 1) ELSE touch
           /\ lastOp' = [op |-> "Get", key |-> key, found |-> r.found,
                         value |-> r.value, present |-> key \in DOMAIN items,
                         expiration |-> IF key \in DOMAIN items
                                        THEN items[key].expiration ELSE 0,
                         at |-> now, evicted |-> {}, ttl |-> 0, via |-> None]
    /\ UNCHANGED <<maxSize, items, now, lastEval, httpVars, keyVars, persistVars, sweepVars, lockVars, mockVars, fetchVars, stepVars>>

\* the body of Delete, from a caller or from the goroutine Get started
applyDelete(key) ==
    LET c == Delete(items, lruList, key)
    IN  /\ items' = c.items
        /\ lruList' = c.lruList
        /\ touch' = [k \in DOMAIN c.items |-> touch[k]]

\* a caller calls Delete(key)
DoDelete(key) ==
    /\ key \in DOMAIN items
    /\ applyDelete(key)
    /\ lastOp' = [NoOp EXCEPT !.op = "Delete", !.key = key]
    /\ UNCHANGED <<maxSize, pendingDelete, now, tick, lastEval, httpVars, keyVars, persistVars, sweepVars, lockVars, mockVars, fetchVars, stepVars>>

\* the goroutine `go c.Delete(key)` of an expired Get gets the lock
AsyncDelete(key) ==
    /\ key \in pendingDelete
    /\ pendingDelete' = pendingDelete \ {key}
    /\ applyDelete(key)
    /\ UNCHANGED <<maxSize, now, tick, lastOp, lastEval, httpVars, keyVars, persistVars, sweepVars, lockVars, mockVars, fetchVars, stepVars>>

\* a caller calls Clear()
DoClear ==
    /\ items # EmptyItems
    /\ items' = Clear.items
    /\ lruList' = Clear.lruList
    /\ touch' = EmptyItems
    /\ lastOp' = [NoOp EXCEPT !.op = "Clear"]
    /\ UNCHANGED <<maxSize, pendingDelete, now, tick, lastEval, httpVars, keyVars, persistVars, sweepVars, lockVars, mockVars, fetchVars, stepVars>>

\* the sweep of CacheManager.StartCleanup calls CleanupExpired()
DoCleanupExpired ==
    /\ \E k \in DOMAIN items : Expired(items[k], now)
    /\ LET c == CleanupExpired(items, lruList, now)
       IN  /\ items' = c.items
           /\ lruList' = c.lruList
           /\ touch' = [k \in DOMAIN c.items |-> touch[k]]
    /\ UNCHANGED <<maxSize, pendingDelete, now, tick, lastOp, lastEval,
                   httpVars, keyVars, persistVars, sweepVars, lockVars, mockVars, fetchVars, stepVars>>

\* the clock advances
Tick ==
    /\ now < MaxTime
    /\ now' = now + 1
    /\ UNCHANGED <<maxSize, items, lruList, pendingDelete, histVars, lastEval,
                   httpVars, keyVars, persistVars, sweepVars, lockVars, mockVars, fetchVars, stepVars>>

InitCache == CacheInit /\ otherInit

NextCache ==
    \/ \E key \in CacheKeys, res \in CacheResults, ttl \in TTLs : DoSet(key, res, ttl)
    \/ \E key \in CacheKeys :
          DoManagerSet(key, FlagResult(<<"a">>, BoolV(TRUE), "api_evaluation", None, 0, FALSE), 0)
    \/ \E key \in CacheKeys : DoGet(key)
    \/ \E key \in CacheKeys : DoDelete(key)
    \/ \E key \in CacheKeys : AsyncDelete(key)
    \/ DoClear
    \/ DoCleanupExpired
    \/ Tick

SpecCache == InitCache /\ [][NextCache]_vars

\* ----------------------------------------------------- Evaluator, as data
StrV(x) == <<"string", x>>
IntV(n) == <<"int", n>>
\* a float64, in tenths
FloatV(tenths) == <<"float64", tenths>>
JsonV(x) == <<"json", x>>

\* the error kinds a fetch can end with: the SDK error types of errors.go and
\* the context's own error
FetchErrors == {"NetworkError", "AuthenticationError", "ValidationError",
                "RateLimitError", "TimeoutError", "context"}

\* what HTTPClient.EvaluateFlag returns: a response with Enabled, or an error
FetchOutcomes == [err : {None}, enabled : BOOLEAN]
                    \cup [err : FetchErrors, enabled : {FALSE}]

\* evaluateFlagFromAPI, given what the HTTP client returned at time t
evaluateFlagFromAPINil(flagKey, defaultValue, out, t) ==
    IF out.err # None
    THEN FlagResult(flagKey, NilV, "error_fallback", out.err, t, FALSE)
    ELSE FlagResult(flagKey, BoolV(out.enabled), "api_evaluation", None, t, FALSE)

evaluateFlagFromAPI(flagKey, defaultValue, out, t) ==
    IF out.err # None
    THEN FlagResult(flagKey, defaultValue, "error_fallback", out.err, t, FALSE)
    ELSE FlagResult(flagKey, BoolV(out.enabled), "api_evaluation", None, t, FALSE)

\* `if result.Error == nil` of EvaluateFlag and EvaluateFlags
cacheableAlways(res) == TRUE

cacheable(res) == res.Error = None

\* Evaluator.EvaluateFlag: the result, the cache afterwards, whether the
\* removal goroutine was started and whether the network was called.  The
\* lookup runs at time t, the fetch returns `out` at time t2.
EvaluateFlag(its, l, flagKey, defaultValue, userID, out, t, t2, cap, dttl) ==
    LET key == generateCacheKey(flagKey, userID, Environment)
        g == Get(its, l, key, t)
        res == evaluateFlagFromAPI(flagKey, defaultValue, out, t2)
        c == IF cacheable(res)
             THEN ManagerSet(its, g.lruList, key, res, 0, t2, cap, dttl)
             ELSE [items |-> its, lruList |-> g.lruList]
    IN  IF g.found
        THEN [result |-> [g.value EXCEPT !.CacheHit = TRUE], items |-> its,
              lruList |-> g.lruList, spawn |-> FALSE, fetched |-> FALSE]
        ELSE [result |-> res, items |-> c.items, lruList |-> c.lruList,
              spawn |-> g.spawn, fetched |-> TRUE]

\* the elements of a slice
Range(q) == {q[i] : i \in 1..Len(q)}

\* the orders in which `range` can visit the keys of a map
Orders(S) == {p \in [1..Cardinality(S) -> S] : \A i, j \in DOMAIN p : i # j => p[i] # p[j]}

\* The entries of the results map of a batch response, as the backend
\* writes them: a result object with enabled true, one with enabled false,
\* and an object that reports an error for its key instead.
WireEntries == {"enabled", "disabled", "errored"}

\* the Enabled field of the EvaluateFlagResponse the entry is decoded into:
\* the struct has no error field, json.Unmarshal skips what it does not
\* know and leaves Enabled at its zero value
Enabled(entry) == entry = "enabled"

\* what HTTPClient.EvaluateFlags returns: an error, or Results for any set of
\* flag keys (requested or not) with entries drawn from `entries`
BatchOutcomes(errs, entries) ==
    [err : errs, results : {EmptyItems}]
        \cup {[err |-> None, results |-> r] :
                 r \in UNION {[S -> entries] : S \in SUBSET FlagKeys}}

\* the lookup loop of EvaluateFlags (evaluator.go:72-86), from index i on
RECURSIVE lookupFlags(_, _, _, _, _, _)
lookupFlags(its, flagKeys, userID, t, i, st) ==
    IF i > Len(flagKeys) THEN st
    ELSE LET key == generateCacheKey(flagKeys[i], userID, Environment)
             g == Get(its, st.lruList, key, t)
         IN  lookupFlags(its, flagKeys, userID, t, i + 1,
                IF g.found
                THEN [st EXCEPT !.results = With(@, flagKeys[i],
                                                 [g.value EXCEPT !.CacheHit = TRUE]),
                                !.lruList = g.lruList]
                ELSE [st EXCEPT !.uncached = Append(@, flagKeys[i]),
                                !.spawned = IF g.spawn THEN @ \cup {key} ELSE @])

\* evaluateFlagsFromAPI, given what the HTTP client returned at time t
evaluateFlagsFromAPI(flagKeys, resp, t) ==
    IF resp.err # None
    THEN [k \in Range(flagKeys) |->
            FlagResult(k, NilV, "error_fallback", resp.err, t, FALSE)]
    ELSE [k \in (DOMAIN resp.results) \cup Range(flagKeys) |->
            IF k \in DOMAIN resp.results
            THEN FlagResult(k, BoolV(Enabled(resp.results[k])), "api_evaluation",
                            None, t, FALSE)
            ELSE FlagResult(k, NilV, "not_found", "flag not found in response",
                            t, FALSE)]

\* the caching part of the merge loop of EvaluateFlags (evaluator.go:97-103),
\* visiting the batch results in the given order, from index i on
RECURSIVE storeFlags(_, _, _, _, _, _, _, _)
storeFlags(c, batch, order, userID, t, cap, dttl, i) ==
    IF i > Len(order) THEN c
    ELSE storeFlags(
            IF cacheable(batch[order[i]])
            THEN ManagerSet(c.items, c.lruList,
                            generateCacheKey(order[i], userID, Environment),
                            batch[order[i]], 0, t, cap, dttl)
            ELSE c,
            batch, order, userID, t, cap, dttl, i + 1)

\* Evaluator.EvaluateFlags: lookups at time t, one batched fetch returning
\* resp at time t2, the merge visiting the batch results in `order`
EvaluateFlags(its, l, flagKeys, userID, resp, order, t, t2, cap, dttl) ==
    LET st == lookupFlags(its, flagKeys, userID, t, 1,
                          [results |-> EmptyItems, uncached |-> <<>>,
                           spawned |-> {}, lruList |-> l])
        batch == evaluateFlagsFromAPI(st.uncached, resp, t2)
        c == storeFlags([items |-> its, lruList |-> st.lruList], batch, order,
                        userID, t2, cap, dttl, 1)
    IN  IF st.uncached = <<>>
        THEN [results |-> st.results, items |-> its, lruList |-> st.lruList,
              spawned |-> st.spawned, uncached |-> st.uncached,
              batchKeys |-> {}]
        ELSE [results |-> [k \in (DOMAIN st.results) \cup DOMAIN batch |->
                             IF k \in DOMAIN batch THEN batch[k] ELSE st.results[k]],
              items |-> c.items, lruList |-> c.lruList,
              spawned |-> st.spawned, uncached |-> st.uncached,
              batchKeys |-> DOMAIN batch]

\* the typed accessors of VariablyClient, applied to the result of
\* EvaluateFlag(ctx, flagKey, defaultValue, userContext)
EvaluateFlagBool(res, defaultValue) ==
    IF res.Error # None THEN defaultValue
    ELSE IF res.Value[1] = "bool" THEN res.Value ELSE defaultValue

EvaluateFlagString(res, defaultValue) ==
    IF res.Error # None THEN defaultValue
    ELSE IF res.Value[1] = "string" THEN res.Value ELSE defaultValue

EvaluateFlagInt(res, defaultValue) ==
    IF res.Error # None THEN defaultValue
    ELSE IF res.Value[1] = "int" THEN res.Value
    ELSE IF res.Value[1] = "int64" THEN IntV(res.Value[2])
    ELSE IF res.Value[1] = "float64" THEN IntV(res.Value[2] \div 10)
    ELSE defaultValue

EvaluateFlagFloat(res, defaultValue) ==
    IF res.Error # None THEN defaultValue
    ELSE IF res.Value[1] = "float64" THEN res.Value
    ELSE IF res.Value[1] \in {"int", "int64"} THEN FloatV(res.Value[2] * 10)
    ELSE defaultValue

EvaluateFlagJSON(res, defaultValue) ==
    IF res.Error # None THEN defaultValue ELSE res.Value

\* the accessor a caller uses, with the default value it passes
Accessors == {<<"Flag", StrV("d")>>, <<"Bool", BoolV(TRUE)>>,
              <<"String", StrV("d")>>, <<"Int", IntV(7)>>,
              <<"Float", FloatV(15)>>, <<"JSON", JsonV("d")>>}

\* what the caller of accessor acc gets back
Returned(acc, res, defaultValue) ==
    CASE acc = "Flag" -> res
      [] acc = "Bool" -> EvaluateFlagBool(res, defaultValue)
      [] acc = "String" -> EvaluateFlagString(res, defaultValue)
      [] acc = "Int" -> EvaluateFlagInt(res, defaultValue)
      [] acc = "Float" -> EvaluateFlagFloat(res, defaultValue)
      [] acc = "JSON" -> EvaluateFlagJSON(res, defaultValue)

\* -------------------------------------------------- Evaluator, as actions
\* NewClient: the cache is built from a validated configuration
EvalInit ==
    /\ maxSize \in 1..MaxCap
    /\ items = EmptyItems
    /\ lruList = <<>>
    /\ pendingDelete = {}
    /\ now = 0
    /\ tick = 0
    /\ touch = EmptyItems
    /\ lastOp = NoOp
    /\ lastEval = NoEval

\* a caller evaluates one flag through an accessor; the fetch, if any, takes
\* dur ticks
DoEvaluateFlag(acc, flagKey, userID, out, dur) ==
    /\ lastEval = NoEval
    /\ now + dur <= MaxTime
    /\ LET e == EvaluateFlag(items, lruList, flagKey, acc[2], userID, out,
                             now, now + dur, maxSize, DefaultTTL)
       IN  /\ e.fetched \/ (dur = 0 /\ out = [err |-> None, enabled |-> FALSE])
           /\ items' = e.items
           /\ lruList' = e.lruList
           /\ pendingDelete' = IF e.spawn
                               THEN pendingDelete \cup
                                      {generateCacheKey(flagKey, userID, Environment)}
                               ELSE pendingDelete
           /\ now' = IF e.fetched THEN now + dur ELSE now
           /\ lastEval' = [op |-> "EvaluateFlag", accessor |-> acc[1],
                           keys |-> <<flagKey>>, user |-> userID,
                           defaultValue |-> acc[2],
                           results |-> (flagKey :> e.result),
                           returned |-> Returned(acc[1], e.result, acc[2]),
                           fetched |-> e.fetched,
                           fetchKeys |-> IF e.fetched THEN <<flagKey>> ELSE <<>>,
                           fetchErr |-> IF e.fetched THEN out.err ELSE None,
                           resp |-> out,
                           hits |-> IF e.fetched THEN 0 ELSE 1,
                           misses |-> IF e.fetched THEN 1 ELSE 0]
    /\ UNCHANGED <<maxSize, histVars, httpVars, keyVars, persistVars, sweepVars, lockVars, mockVars, fetchVars, stepVars>>

\* a caller evaluates a list of flags in one batch; the fetch, if any, takes
\* dur ticks and the merge loop visits the batch results in `order`
DoEvaluateFlags(flagKeys, userID, resp, dur) ==
    /\ lastEval = NoEval
    /\ now + dur <= MaxTime
    /\ LET st == lookupFlags(items, flagKeys, userID, now, 1,
                             [results |-> EmptyItems, uncached |-> <<>>,
                              spawned |-> {}, lruList |-> lruList])
           fetched == st.uncached # <<>>
           batchKeys == IF fetched
                        THEN DOMAIN evaluateFlagsFromAPI(st.uncached, resp, now)
                        ELSE {}
       IN  /\ fetched \/ (dur = 0 /\ resp = [err |-> None, results |-> EmptyItems])
           /\ \E order \in Orders(batchKeys) :
                LET e == EvaluateFlags(items, lruList, flagKeys, userID, resp,
                                       order, now, now + dur, maxSize, DefaultTTL)
                IN  /\ items' = e.items
                    /\ lruList' = e.lruList
                    /\ pendingDelete' = pendingDelete \cup e.spawned
                    /\ now' = IF fetched THEN now + dur ELSE now
                    /\ lastEval' = [op |-> "EvaluateFlags", accessor |-> "Flags",
                                    keys |-> flagKeys, user |-> userID,
                                    defaultValue |-> None,
                                    results |-> e.results,
                                    returned |-> e.results,
                                    fetched |-> fetched,
                                    fetchKeys |-> e.uncached,
                                    fetchErr |-> IF fetched THEN resp.err ELSE None,
                                    resp |-> resp,
                                    hits |-> Len(flagKeys) - Len(e.uncached),
                                    misses |-> Len(e.uncached)]
    /\ UNCHANGED <<maxSize, histVars, httpVars, keyVars, persistVars, sweepVars, lockVars, mockVars, fetchVars, stepVars>>

\* the caller has taken the result of its call and is ready for the next one
EvalReturn ==
    /\ lastEval # NoEval
    /\ lastEval' = NoEval
    /\ UNCHANGED <<cacheVars, histVars, httpVars, keyVars, persistVars, sweepVars, lockVars, mockVars, fetchVars, stepVars>>

\* Evaluator.RefreshCache / ClearCache
DoRefreshCache ==
    /\ items # EmptyItems
    /\ items' = Clear.items
    /\ lruList' = Clear.lruList
    /\ UNCHANGED <<maxSize, pendingDelete, now, histVars, lastEval, httpVars, keyVars, persistVars, sweepVars, lockVars, mockVars, fetchVars, stepVars>>

\* the removal goroutine of an expired Get, inside an evaluator
EvalAsyncDelete(key) ==
    /\ key \in pendingDelete
    /\ pendingDelete' = pendingDelete \ {key}
    /\ LET c == Delete(items, lruList, key)
       IN  items' = c.items /\ lruList' = c.lruList
    /\ UNCHANGED <<maxSize, now, histVars, lastEval, httpVars, keyVars, persistVars, sweepVars, lockVars, mockVars, fetchVars, stepVars>>

\* the periodic sweep of CacheManager.StartCleanup
EvalSweep ==
    /\ \E k \in DOMAIN items : Expired(items[k], now)
    /\ LET c == CleanupExpired(items, lruList, now)
       IN  items' = c.items /\ lruList' = c.lruList
    /\ UNCHANGED <<maxSize, pendingDelete, now, histVars, lastEval, httpVars, keyVars, persistVars, sweepVars, lockVars, mockVars, fetchVars, stepVars>>

InitEval == EvalInit /\ otherInit

\* the key lists of the batch calls
BatchKeyLists == UNION {Orders(S) : S \in (SUBSET FlagKeys) \ {{}}}

\* the fetch outcomes followed where the cache is what matters
EvalOutcomes == {out \in FetchOutcomes : out.err \in {None, "NetworkError", "context"}}

\* evaluations through the full-result accessor, all users
NextEval ==
    \/ \E f \in FlagKeys, u \in UserIDs, out \in EvalOutcomes, dur \in 0..1 :
          DoEvaluateFlag(<<"Flag", StrV("d")>>, f, u, out, dur)
    \/ \E fs \in BatchKeyLists,
          resp \in BatchOutcomes({"NetworkError", "context"}, {"enabled", "disabled"}) :
          DoEvaluateFlags(fs, <<"a">>, resp, 0)
    \/ EvalReturn
    \/ DoRefreshCache
    \/ \E key \in CacheKeys : EvalAsyncDelete(key)
    \/ EvalSweep
    \/ Tick

SpecEval == InitEval /\ [][NextEval]_vars

\* evaluations of one user through every accessor, every error kind
NextAccess ==
    \/ \E acc \in Accessors, f \in FlagKeys, out \in FetchOutcomes :
          DoEvaluateFlag(acc, f, <<"a">>, out, 0)
    \/ EvalReturn
    \/ DoRefreshCache
    \/ \E key \in CacheKeys : EvalAsyncDelete(key)
    \/ EvalSweep
    \/ Tick

SpecAccess == InitEval /\ [][NextAccess]_vars

\* ------------------------------------------------- gates, as data
GateKeys == {<<"a">>, <<"user">>}

\* the cache keys of the gates of user "a"
GateCacheKeys == {generateGateCacheKey(g, <<"a">>, Environment) : g \in GateKeys}

\* cachedResult.Value.(bool)
IsBool(v) == v[1] = "bool"

\* EvaluateGate that goes to the backend without a look at the cache
EvaluateGateNoCache(its, l, gateKey, userID, out, t, t2, cap, dttl) ==
    LET key == generateGateCacheKey(gateKey, userID, Environment)
        res == FlagResult(gateKey, BoolV(out.enabled), "api_evaluation", None, t2, FALSE)
        c == ManagerSet(its, l, key, res, 0, t2, cap, dttl)
    IN  IF out.err # None
        THEN [returned |-> FALSE, items |-> its, lruList |-> l,
              spawn |-> FALSE, fetched |-> TRUE, hits |-> 0, misses |-> 1]
        ELSE [returned |-> out.enabled, items |-> c.items, lruList |-> c.lruList,
              spawn |-> FALSE, fetched |-> TRUE, hits |-> 0, misses |-> 1]

\* Evaluator.EvaluateGate: the boolean returned, the cache afterwards, the
\* cache hits and misses recorded and whether the network was called.  An
\* entry whose value is not a bool is counted as a hit and then fetched.
EvaluateGate(its, l, gateKey, userID, out, t, t2, cap, dttl) ==
    LET key == generateGateCacheKey(gateKey, userID, Environment)
        g == Get(its, l, key, t)
        res == FlagResult(gateKey, BoolV(out.enabled), "api_evaluation", None, t2, FALSE)
        c == ManagerSet(its, g.lruList, key, res, 0, t2, cap, dttl)
    IN  IF g.found /\ IsBool(g.value.Value)
        THEN [returned |-> g.value.Value[2], items |-> its, lruList |-> g.lruList,
              spawn |-> FALSE, fetched |-> FALSE, hits |-> 1, misses |-> 0]
        ELSE IF out.err # None
        THEN [returned |-> FALSE, items |-> its, lruList |-> g.lruList,
              spawn |-> g.spawn, fetched |-> TRUE,
              hits |-> IF g.found THEN 1 ELSE 0, misses |-> 1]
        ELSE [returned |-> out.enabled, items |-> c.items, lruList |-> c.lruList,
              spawn |-> g.spawn, fetched |-> TRUE,
              hits |-> IF g.found THEN 1 ELSE 0, misses |-> 1]

\* the lookup loop of EvaluateGates that asks the backend for every gate
RECURSIVE lookupGatesAll(_, _, _, _, _, _)
lookupGatesAll(its, gateKeys, userID, t, i, st) ==
    IF i > Len(gateKeys) THEN st
    ELSE lookupGatesAll(its, gateKeys, userID, t, i + 1,
                        [st EXCEPT !.uncached = Append(@, gateKeys[i])])

\* the lookup loop of EvaluateGates (evaluator.go:163-179), from index i on
RECURSIVE lookupGates(_, _, _, _, _, _)
lookupGates(its, gateKeys, userID, t, i, st) ==
    IF i > Len(gateKeys) THEN st
    ELSE LET key == generateGateCacheKey(gateKeys[i], userID, Environment)
             g == Get(its, st.lruList, key, t)
         IN  lookupGates(its, gateKeys, userID, t, i + 1,
                IF g.found
                THEN [st EXCEPT !.results = With(@, gateKeys[i],
                                     IF IsBool(g.value.Value) THEN g.value.Value[2]
                                     ELSE FALSE),
                                !.lruList = g.lruList]
                ELSE [st EXCEPT !.uncached = Append(@, gateKeys[i]),
                                !.spawned = IF g.spawn THEN @ \cup {key} ELSE @])

\* what HTTPClient.EvaluateGates returns: an error, or Results for any set
\* of gate keys (requested or not)
GateBatchOutcomes(errs) ==
    [err : errs, results : {EmptyItems}]
        \cup {[err |-> None, results |-> r] :
                 r \in UNION {[S -> BOOLEAN] : S \in SUBSET GateKeys}}

\* the caching loop of EvaluateGates (evaluator.go:197-211), visiting the
\* response's results in the given order, from index i on
RECURSIVE storeGates(_, _, _, _, _, _, _, _)
storeGates(c, results, order, userID, t, cap, dttl, i) ==
    IF i > Len(order) THEN c
    ELSE storeGates(
            ManagerSet(c.items, c.lruList,
                       generateGateCacheKey(order[i], userID, Environment),
                       FlagResult(order[i], BoolV(results[order[i]]), "api_evaluation",
                                  None, t, FALSE),
                       0, t, cap, dttl),
            results, order, userID, t, cap, dttl, i + 1)

\* Evaluator.EvaluateGates: lookups at time t, one batched fetch returning
\* resp at time t2, the caching loop visiting the results in `order`
EvaluateGates(its, l, gateKeys, userID, resp, order, t, t2, cap, dttl) ==
    LET st == lookupGates(its, gateKeys, userID, t, 1,
                          [results |-> EmptyItems, uncached |-> <<>>,
                           spawned |-> {}, lruList |-> l])
        c == storeGates([items |-> its, lruList |-> st.lruList], resp.results, order,
                        userID, t2, cap, dttl, 1)
    IN  IF st.uncached = <<>>
        THEN [results |-> st.results, items |-> its, lruList |-> st.lruList,
              spawned |-> st.spawned, uncached |-> st.uncached]
        ELSE IF resp.err # None
        THEN [results |-> [k \in (DOMAIN st.results) \cup Range(st.uncached) |->
                             IF k \in Range(st.uncached) THEN FALSE
                             ELSE st.results[k]],
              items |-> its, lruList |-> st.lruList,
              spawned |-> st.spawned, uncached |-> st.uncached]
        ELSE [results |-> [k \in (DOMAIN st.results) \cup DOMAIN resp.results |->
                             IF k \in DOMAIN resp.results THEN resp.results[k]
                             ELSE st.results[k]],
              items |-> c.items, lruList |-> c.lruList,
              spawned |-> st.spawned, uncached |-> st.uncached]

\* ----------------------------------------------- gates, as actions
\* a caller evaluates one gate; the fetch, if any, takes dur ticks
DoEvaluateGate(gateKey, userID, out, dur) ==
    /\ lastEval = NoEval
    /\ now + dur <= MaxTime
    /\ LET e == EvaluateGate(items, lruList, gateKey, userID, out, now, now + dur,
                             maxSize, DefaultTTL)
       IN  /\ e.fetched \/ (dur = 0 /\ out = [err |-> None, enabled |-> FALSE])
           /\ items' = e.items
           /\ lruList' = e.lruList
           /\ pendingDelete' = IF e.spawn
                               THEN pendingDelete \cup
                                      {generateGateCacheKey(gateKey, userID, Environment)}
                               ELSE pendingDelete
           /\ now' = IF e.fetched THEN now + dur ELSE now
           /\ lastEval' = [op |-> "EvaluateGate", accessor |-> "Gate",
                           keys |-> <<gateKey>>, user |-> userID,
                           defaultValue |-> None,
                           results |-> (gateKey :> e.returned),
                           returned |-> e.returned,
                           fetched |-> e.fetched,
                           fetchKeys |-> IF e.fetched THEN <<gateKey>> ELSE <<>>,
                           fetchErr |-> IF e.fetched THEN out.err ELSE None,
                           resp |-> out,
                           hits |-> e.hits, misses |-> e.misses]
    /\ UNCHANGED <<maxSize, histVars, httpVars, keyVars, persistVars, sweepVars, lockVars, mockVars, fetchVars, stepVars>>

\* a caller evaluates a list of gates in one batch; the fetch, if any, takes
\* dur ticks and the caching loop visits the response's results in `order`
DoEvaluateGates(gateKeys, userID, resp, dur) ==
    /\ lastEval = NoEval
    /\ now + dur <= MaxTime
    /\ LET st == lookupGates(items, gateKeys, userID, now, 1,
                             [results |-> EmptyItems, uncached |-> <<>>,
                              spawned |-> {}, lruList |-> lruList])
           fetched == st.uncached # <<>>
       IN  /\ fetched \/ (dur = 0 /\ resp = [err |-> None, results |-> EmptyItems])
           /\ \E order \in Orders(IF fetched THEN DOMAIN resp.results ELSE {}) :
                LET e == EvaluateGates(items, lruList, gateKeys, userID, resp,
                                       order, now, now + dur, maxSize, DefaultTTL)
                IN  /\ items' = e.items
                    /\ lruList' = e.lruList
                    /\ pendingDelete' = pendingDelete \cup e.spawned
                    /\ now' = IF fetched THEN now + dur ELSE now
                    /\ lastEval' = [op |-> "EvaluateGates", accessor |-> "Gates",
                                    keys |-> gateKeys, user |-> userID,
                                    defaultValue |-> None,
                                    results |-> e.results,
                                    returned |-> e.results,
                                    fetched |-> fetched,
                                    fetchKeys |-> e.uncached,
                                    fetchErr |-> IF fetched THEN resp.err ELSE None,
                                    resp |-> resp,
                                    hits |-> Len(gateKeys) - Len(e.uncached),
                                    misses |-> Len(e.uncached)]
    /\ UNCHANGED <<maxSize, histVars, httpVars, keyVars, persistVars, sweepVars, lockVars, mockVars, fetchVars, stepVars>>

\* the key lists of the batch gate calls
GateKeyLists == UNION {Orders(S) : S \in (SUBSET GateKeys) \ {{}}}

\* the keys of namespace ns ("flag" or "gate") that the cache or a removal
\* goroutine still holds
Held(ns) == {k \in (DOMAIN items) \cup pendingDelete : k[1] = ns}

\* The flags and the gates of one user, one by one and in batches.  The
\* caller evaluates flags while no gate key is held and gates while no flag
\* key is held; the steps of the clock, the sweep
\* and the removal goroutines are taken between two calls (they commute with
\* the caller's taking of its result).
NextGate ==
    \/ \E f \in FlagKeys, out \in EvalOutcomes, dur \in 0..1 :
          /\ Held("gate") = {}
          /\ DoEvaluateFlag(<<"Flag", StrV("d")>>, f, <<"a">>, out, dur)
    \/ \E fs \in BatchKeyLists, resp \in BatchOutcomes({"NetworkError"}, WireEntries) :
          /\ Held("gate") = {}
          /\ DoEvaluateFlags(fs, <<"a">>, resp, 0)
    \/ \E g \in GateKeys, out \in EvalOutcomes, dur \in 0..1 :
          /\ Held("flag") = {}
          /\ DoEvaluateGate(g, <<"a">>, out, dur)
    \/ \E gs \in GateKeyLists, resp \in GateBatchOutcomes({"NetworkError"}) :
          /\ Held("flag") = {}
          /\ DoEvaluateGates(gs, <<"a">>, resp, 0)
    \/ EvalReturn
    \/ lastEval = NoEval /\ DoRefreshCache
    \/ lastEval = NoEval /\ \E key \in CacheKeys \cup GateCacheKeys : EvalAsyncDelete(key)
    \/ lastEval = NoEval /\ EvalSweep
    \/ lastEval = NoEval /\ Tick

SpecGate == InitEval /\ [][NextGate]_vars

\* ------------------------------------------------------ HTTPClient, as data
\* An SDK error is [kind, status, retryAfter, cause]; status is the
\* StatusCode of a NetworkError and 0 for the kinds that carry none.
SDKError(kind, status, retryAfter, cause) ==
    [kind |-> kind, status |-> status, retryAfter |-> retryAfter, cause |-> cause]

NewNetworkError(status, cause) == SDKError("NetworkError", status, 0, cause)
NewAuthenticationError == SDKError("AuthenticationError", 0, 0, None)
NewValidationError(cause) == SDKError("ValidationError", 0, 0, cause)
NewRateLimitError(retryAfter) == SDKError("RateLimitError", 0, retryAfter, None)
NewTimeoutError == SDKError("TimeoutError", 0, 0, None)

\* a nil error
Nil == [kind |-> "nil"]

\* makeRequest has not returned
Pending == [kind |-> "pending"]

\* ctx.Err()
ContextError == SDKError("context", 0, 0, None)

IsRetryable(e) ==
    CASE e.kind = "NetworkError" ->
            e.status >= 500 \/ e.status = 429 \/ e.status = 408
      [] e.kind = "TimeoutError" -> TRUE
      [] e.kind = "RateLimitError" -> TRUE
      [] OTHER -> FALSE

\* The response bodies, by what the decoders make of them:
\*   garbage    not JSON
\*   object     a JSON object without details, without error
\*   retry5     an error object whose details are the text "5"
\*   retrySoon  an error object whose details are the text "soon"
\*   apiError   an APIResponse whose error field is set
Bodies == {"garbage", "object", "retry5", "retrySoon", "apiError"}

\* json.Unmarshal(body, &apiErr) succeeds
ParsesAsObject(body) == body # "garbage"

\* strconv.Atoi(apiErr.Details), 0 where it fails or Details is empty
RetryAfterOf(body) == IF body = "retry5" THEN 5 ELSE 0

\* handleHTTPError that looks at the status code only
handleHTTPErrorByStatus(statusCode, body) ==
    CASE statusCode = 401 -> NewAuthenticationError
      [] statusCode = 400 -> NewValidationError(None)
      [] statusCode = 429 -> NewRateLimitError(RetryAfterOf(body))
      [] statusCode = 408 -> NewTimeoutError
      [] OTHER -> NewNetworkError(statusCode, None)

handleHTTPError(statusCode, body) ==
    IF ~ParsesAsObject(body) THEN NewNetworkError(statusCode, None)
    ELSE CASE statusCode = 401 -> NewAuthenticationError
           [] statusCode = 400 -> NewValidationError(None)
           [] statusCode = 429 -> NewRateLimitError(RetryAfterOf(body))
           [] statusCode = 408 -> NewTimeoutError
           [] OTHER -> NewNetworkError(statusCode, None)

Statuses == {200, 400, 401, 404, 408, 429, 500, 502}

\* What one attempt meets: the request body cannot be marshalled, the request
\* cannot be built, the round trip fails without a response (connection
\* failure, or the context ended), the body of the response cannot be read,
\* or a response arrives whole.
Response(type, status, body, cause) ==
    [type |-> type, status |-> status, body |-> body, cause |-> cause]

NoResponse == Response("none", 0, None, None)

Responses ==
    {Response("marshal", 0, None, "json"), Response("newRequest", 0, None, "url"),
     Response("transport", 0, None, "conn"), Response("transport", 0, None, "ctx")}
    \cup {Response("read", s, None, "io") : s \in Statuses}
    \cup {Response("http", s, b, None) : s \in Statuses, b \in Bodies}

\* doRequest
doRequest(resp, withResult) ==
    CASE resp.type = "marshal" -> NewValidationError(resp.cause)
      [] resp.type = "newRequest" -> NewNetworkError(0, resp.cause)
      [] resp.type = "transport" -> NewNetworkError(0, resp.cause)
      [] resp.type = "read" -> NewNetworkError(resp.status, resp.cause)
      [] OTHER ->
            IF resp.status >= 400 THEN handleHTTPError(resp.status, resp.body)
            ELSE IF ~withResult THEN Nil
            ELSE IF resp.body = "apiError" THEN NewNetworkError(resp.status, None)
            ELSE IF ~ParsesAsObject(resp.body) THEN NewNetworkError(resp.status, "json")
            ELSE Nil

\* the loop of makeRequest that leaves on the last index without running it
afterAttemptShort(e, att, retries) ==
    IF e = Nil THEN [pc |-> "done", result |-> Nil, attempt |-> att]
    ELSE IF ~IsRetryable(e) THEN [pc |-> "done", result |-> e, attempt |-> att]
    ELSE IF att + 1 < retries THEN [pc |-> "wait", result |-> Pending, attempt |-> att + 1]
    ELSE [pc |-> "done", result |-> e, attempt |-> att + 1]

\* the loop of makeRequest without its break
afterAttemptNoBreak(e, att, retries) ==
    IF e = Nil THEN [pc |-> "done", result |-> Nil, attempt |-> att]
    ELSE IF att + 1 <= retries THEN [pc |-> "wait", result |-> Pending, attempt |-> att + 1]
    ELSE [pc |-> "done", result |-> e, attempt |-> att + 1]

\* makeRequest from the return of doRequest to the next wait or to the
\* return: nil on success, the error after the break, the error when
\* attempt++ leaves the loop, else the select of the next iteration
afterAttempt(e, att, retries) ==
    IF e = Nil THEN [pc |-> "done", result |-> Nil, attempt |-> att]
    ELSE IF ~IsRetryable(e) THEN [pc |-> "done", result |-> e, attempt |-> att]
    ELSE IF att + 1 <= retries THEN [pc |-> "wait", result |-> Pending, attempt |-> att + 1]
    ELSE [pc |-> "done", result |-> e, attempt |-> att + 1]

\* base and maxBackoff of calculateBackoff, in milliseconds
BaseBackoffMs == 100
MaxBackoffMs == 30000

\* rand.Float64(), in hundredths
RandFloats == {0, 25, 50, 75, 99}

RECURSIVE Pow2(_)
\* math.Pow(2, float64(n))
Pow2(n) == IF n = 0 THEN 1 ELSE 2 * Pow2(n - 1)

\* the conversion of the quotient num/den to an integer type: toward zero
Truncate(num, den) == IF num >= 0 THEN num \div den ELSE -((-num) \div den)

\* a time.Duration, an int64 count of nanoseconds, written m * 2^e with a
\* mantissa below 2^30 in size: every value calculateBackoff meets is a
\* multiple of a power of two, and 1 ms is 15625 * 2^6 ns
Dur(m, e) == [m |-> m, e |-> e]
Ms(ms) == Dur(ms * 15625, 6)

\* the int64 that m * 2^e is once the bits from 2^64 on are dropped: with
\* 64 - e bits left for the mantissa, in two's complement
Wrap64(m, e) ==
    LET bits == 64 - e
    IN  IF bits <= 0 THEN Dur(0, e)
        ELSE IF bits >= 31 THEN Dur(m, e)
        ELSE LET low == m % Pow2(bits)
             IN  Dur(IF low >= Pow2(bits - 1) THEN low - Pow2(bits) ELSE low, e)

\* d * time.Duration(math.Pow(2, float64(n))), for n <= 62 where the power
\* is an int64
MulPow2(d, n) == Wrap64(d.m, d.e + n)

\* f * d and d1 + d2 in int64, d1 and d2 over the same power of two
MulInt(f, d) == Wrap64(f * d.m, d.e)
Add(d1, d2) == Wrap64(d1.m + d2.m, d1.e)

\* d1 > d2 and d1 >= d2, for d2 >= 0 over a power of two not above d1's
Greater(d1, d2) ==
    LET k == d1.e - d2.e
    IN  d1.m > (IF k >= 30 THEN 0 ELSE d2.m \div Pow2(k))
GreaterEq(d1, d2) ==
    LET k == d1.e - d2.e
    IN  d1.m >= (IF k >= 30 THEN (IF d2.m > 0 THEN 1 ELSE 0)
                 ELSE (d2.m + Pow2(k) - 1) \div Pow2(k))

\* Duration.Milliseconds(), for a d >= 0 of at most a few minutes
Milliseconds(d) == (d.m * Pow2(d.e - 6)) \div 15625

\* calculateBackoff, r being the draw of rand.Float64() in hundredths; the
\* product with the power of two wraps in int64, and the jitter factor
\* time.Duration(r*0.5 - 0.25) is converted before it is multiplied
calculateBackoff(att, r) ==
    LET base == Ms(BaseBackoffMs)
        maxBackoff == Ms(MaxBackoffMs)
        product == MulPow2(base, att)
        backoff == IF Greater(product, maxBackoff) THEN maxBackoff ELSE product
        jitter == MulInt(Truncate(r * 50 - 2500, 10000), backoff)
    IN  Add(backoff, jitter)

\* the class of an attempt's outcome
ClassOf(resp) ==
    IF resp.type \notin {"http", "read"} THEN "none"
    ELSE IF resp.status >= 500 THEN "5xx"
    ELSE IF resp.status \in {408, 429} THEN "408/429"
    ELSE IF resp.status >= 400 THEN "4xx"
    ELSE "2xx"

\* --------------------------------------------------- HTTPClient, as actions
\* NewHTTPClient; Validate has refused a negative RetryAttempts
HTTPInit ==
    /\ retryAttempts \in 0..MaxRetry
    /\ pc = "idle" /\ attempt = 0 /\ hasResult = FALSE
    /\ reqErr = Nil /\ lastErr = Nil /\ lastResp = NoResponse /\ seen = {}
    /\ ctxDone = FALSE /\ result = Pending /\ nAttempts = 0 /\ nWaits = 0
    /\ lastWait = 0

\* a collector that counts an attempt only when it failed
RecordAPICallFailures(m, success) ==
    [apiCalls |-> m.apiCalls + (IF success THEN 0 ELSE 1),
     errorCount |-> m.errorCount + (IF success THEN 0 ELSE 1)]

\* MetricsCollector.RecordAPICall
RecordAPICall(m, success) ==
    [apiCalls |-> m.apiCalls + 1,
     errorCount |-> m.errorCount + (IF success THEN 0 ELSE 1)]

nonHTTPInit ==
    /\ PersistInit
    /\ maxSize = 0 /\ items = EmptyItems /\ lruList = <<>> /\ pendingDelete = {}
    /\ now = 0 /\ tick = 0 /\ touch = EmptyItems /\ lastOp = NoOp
    /\ lastEval = NoEval /\ keyIn = [ns |-> "none"] /\ cacheKey = <<>>

\* a caller enters makeRequest with a live context
StartRequest(withResult) ==
    /\ pc = "idle" /\ reported.calls < MaxCalls
    /\ reported' = [reported EXCEPT !.calls = @ + 1]
    /\ pc' = "attempt" /\ attempt' = 0 /\ hasResult' = withResult
    /\ reqErr' = Nil /\ lastErr' = Nil /\ lastResp' = NoResponse /\ seen' = {}
    /\ ctxDone' = FALSE /\ result' = Pending /\ nAttempts' = 0 /\ nWaits' = 0
    /\ lastWait' = 0
    /\ UNCHANGED <<retryAttempts, cacheVars, histVars, lastEval, keyVars, persistVars,
                   sweepVars, lockVars, metrics, mockVars, slept, fetchVars, stepVars>>

\* one doRequest and what makeRequest does with its return. A request whose
\* context has ended fails in the round trip; the context may also end
\* while the request is in flight.
DoAttempt(resp) ==
    /\ pc = "attempt"
    /\ ctxDone => (resp.type = "transport" /\ resp.cause = "ctx")
    /\ LET e == doRequest(resp, hasResult)
           nx == afterAttempt(e, attempt, retryAttempts)
       IN  /\ reqErr' = e
           /\ lastErr' = IF e = Nil THEN lastErr ELSE e
           /\ pc' = nx.pc /\ result' = nx.result /\ attempt' = nx.attempt
    /\ lastResp' = resp
    /\ seen' = seen \cup {ClassOf(resp)}
    /\ ctxDone' = (ctxDone \/ (resp.type = "transport" /\ resp.cause = "ctx"))
    /\ nAttempts' = nAttempts + 1
    /\ metrics' = RecordAPICall(metrics, doRequest(resp, hasResult) = Nil)
    /\ reported' = [reported EXCEPT !.attempts = @ + 1,
                                    !.failed = @ + (IF doRequest(resp, hasResult) = Nil
                                                    THEN 0 ELSE 1)]
    /\ UNCHANGED <<retryAttempts, hasResult, nWaits, lastWait, cacheVars, histVars,
                   lastEval, keyVars, persistVars, sweepVars, lockVars, mockVars, slept, fetchVars, stepVars>>

\* the wait as time.Sleep(backoff): the context is not looked at
BackoffElapsedSleep ==
    /\ pc = "wait"
    /\ pc' = "attempt" /\ nWaits' = nWaits + 1
    /\ \E r \in RandFloats : lastWait' = Milliseconds(calculateBackoff(attempt, r))
    /\ UNCHANGED <<retryAttempts, attempt, hasResult, reqErr, lastErr, lastResp, seen,
                   ctxDone, result, nAttempts, cacheVars, histVars, lastEval, keyVars, persistVars, sweepVars, lockVars, metrics, reported, mockVars, slept, fetchVars, stepVars>>

\* case <-time.After(backoff): the timer of calculateBackoff(attempt) fires
\* while the context is live (a context that has ended when the select is
\* entered, or ends before the timer fires, takes the other case)
BackoffElapsed ==
    /\ pc = "wait" /\ ~ctxDone
    /\ pc' = "attempt" /\ nWaits' = nWaits + 1
    /\ \E r \in RandFloats : lastWait' = Milliseconds(calculateBackoff(attempt, r))
    /\ UNCHANGED <<retryAttempts, attempt, hasResult, reqErr, lastErr, lastResp, seen,
                   ctxDone, result, nAttempts, cacheVars, histVars, lastEval, keyVars, persistVars, sweepVars, lockVars, metrics, reported, mockVars, slept, fetchVars, stepVars>>

\* case <-ctx.Done(): return ctx.Err()
WaitCancelled ==
    /\ pc = "wait" /\ ctxDone
    /\ pc' = "done" /\ result' = ContextError
    /\ UNCHANGED <<retryAttempts, attempt, hasResult, reqErr, lastErr, lastResp, seen,
                   ctxDone, nAttempts, nWaits, lastWait, cacheVars, histVars, lastEval,
                   keyVars, persistVars, sweepVars, lockVars, metrics, reported, mockVars, slept, fetchVars, stepVars>>

\* the caller cancels, or the deadline of the context passes
Cancel ==
    /\ pc \in {"attempt", "wait"} /\ ~ctxDone
    /\ ctxDone' = TRUE
    /\ UNCHANGED <<retryAttempts, pc, attempt, hasResult, reqErr, lastErr, lastResp,
                   seen, result, nAttempts, nWaits, lastWait, cacheVars, histVars,
                   lastEval, keyVars, persistVars, sweepVars, lockVars, metrics, reported, mockVars, slept, fetchVars, stepVars>>

\* makeRequest has returned to its caller
RequestReturn ==
    /\ pc = "done"
    /\ pc' = "idle"
    /\ UNCHANGED <<retryAttempts, attempt, hasResult, reqErr, lastErr, lastResp, seen,
                   ctxDone, result, nAttempts, nWaits, lastWait, cacheVars, histVars,
                   lastEval, keyVars, persistVars, sweepVars, lockVars, metrics, reported, mockVars, slept, fetchVars, stepVars>>

InitRetry == HTTPInit /\ nonHTTPInit

\* a client configured with any RetryAttempts that Config.Validate accepts,
\* up to MaxAttemptNo
InitBackoff ==
    /\ nonHTTPInit
    /\ retryAttempts \in 1..MaxAttemptNo
    /\ pc = "idle" /\ attempt = 0 /\ hasResult = FALSE
    /\ reqErr = Nil /\ lastErr = Nil /\ lastResp = NoResponse
    /\ seen = {} /\ ctxDone = FALSE /\ result = Pending
    /\ nAttempts = 0 /\ nWaits = 0 /\ lastWait = 0

\* makeRequest computes the delay it sleeps before attempt n
CalculateBackoff(n, r) ==
    /\ n <= retryAttempts
    /\ slept' = [attempt |-> n, r |-> r, delay |-> calculateBackoff(n, r)]
    /\ UNCHANGED <<retryAttempts, pc, attempt, hasResult, reqErr, lastErr, lastResp,
                   seen, ctxDone, result, nAttempts, nWaits, lastWait, metrics,
                   reported, cacheVars, histVars, lastEval, keyVars, persistVars,
                   sweepVars, lockVars, mockVars, fetchVars, stepVars>>

NextBackoff == \E n \in 1..MaxAttemptNo, r \in RandFloats : CalculateBackoff(n, r)

SpecBackoff == InitBackoff /\ [][NextBackoff]_vars

NextRetry ==
    \/ \E withResult \in BOOLEAN : StartRequest(withResult)
    \/ \E resp \in Responses : DoAttempt(resp)
    \/ BackoffElapsed
    \/ WaitCancelled
    \/ Cancel
    \/ RequestReturn

SpecRetry == InitRetry /\ [][NextRetry]_vars

\* ------------------------------------------------------ key derivation
\* the tokens flag keys and user identities are written with
KeyTokens == {"a", ":", "user"}

\* the strings of 1..n tokens
Strings(n) == UNION {[1..k -> KeyTokens] : k \in 1..n}

Environments == {<<"prod">>, <<"a">>}

\* generateCacheKey for a flag, generateGateCacheKey for a gate
deriveKey(in) ==
    IF in.ns = "flag" THEN generateCacheKey(in.entity, in.user, in.env)
    ELSE generateGateCacheKey(in.entity, in.user, in.env)

KeyInputs ==
    [ns : {"flag", "gate"}, entity : Strings(MaxStrLen), user : Strings(MaxStrLen),
     env : Environments]

NoKeyIn == [ns |-> "none"]

KeyInit == keyIn = NoKeyIn /\ cacheKey = <<>>

nonKeyInit ==
    /\ PersistInit
    /\ maxSize = 0 /\ items = EmptyItems /\ lruList = <<>> /\ pendingDelete = {}
    /\ now = 0 /\ tick = 0 /\ touch = EmptyItems /\ lastOp = NoOp
    /\ lastEval = NoEval /\ HTTPInit /\ retryAttempts = 0

\* an evaluation derives the key of its cache entry
DeriveKey(in) ==
    /\ keyIn = NoKeyIn
    /\ keyIn' = in
    /\ cacheKey' = deriveKey(in)
    /\ UNCHANGED <<cacheVars, histVars, lastEval, httpVars, persistVars, sweepVars, lockVars, mockVars, fetchVars, stepVars>>

\* the evaluation is over
KeyReturn ==
    /\ keyIn # NoKeyIn
    /\ keyIn' = NoKeyIn /\ cacheKey' = <<>>
    /\ UNCHANGED <<cacheVars, histVars, lastEval, httpVars, persistVars, sweepVars, lockVars, mockVars, fetchVars, stepVars>>

InitKey == KeyInit /\ nonKeyInit

NextKey ==
    \/ keyIn = NoKeyIn /\ \E in \in KeyInputs : DeriveKey(in)
    \/ KeyReturn

SpecKey == InitKey /\ [][NextKey]_vars

\* ------------------------------------------------ PersistentCache, as data
\* json.Marshal of a FlagResult.Value: an int and a float64 are both written
\* as a JSON number (here in tenths), nil as null
encodeValue(v) ==
    IF v[1] = "int" THEN <<"number", 10 * v[2]>>
    ELSE IF v[1] = "float64" THEN <<"number", v[2]>>
    ELSE IF v[1] = "nil" THEN <<"null">>
    ELSE v

\* json.Unmarshal into an interface{}: every JSON number becomes a float64
decodeValue(j) ==
    IF j[1] = "number" THEN FloatV(j[2])
    ELSE IF j[1] = "null" THEN NilV
    ELSE j

\* json.Marshal of a FlagResult: the Error field has the tag json:"-"
encodeResult(r) ==
    [key |-> r.Key, value |-> encodeValue(r.Value), reason |-> r.Reason,
     evaluated_at |-> r.EvaluatedAt, cache_hit |-> r.CacheHit]

\* json.Unmarshal into a FlagResult: Error stays nil
decodeResult(j) ==
    FlagResult(j.key, decodeValue(j.value), j.reason, None, j.evaluated_at,
               j.cache_hit)

\* json.Marshal of the persistentCacheData built from the copied items
Marshal(its) ==
    JSONFile([k \in DOMAIN its |->
                [value |-> encodeResult(its[k].value),
                 expiration |-> its[k].expiration]])

\* the loop of loadFromFile over the items of the file, in the order ord
RECURSIVE loadItems(_, _, _, _, _, _, _)
loadItems(its, l, data, ord, t, cap, dttl) ==
    IF ord = <<>>
    THEN [items |-> its, lruList |-> l]
    ELSE LET key == Head(ord)
             item == data[key]
             c == IF t < item.expiration
                  THEN Set(its, l, key, decodeResult(item.value),
                           item.expiration - t, t, cap, dttl)
                  ELSE [items |-> its, lruList |-> l]
         IN  loadItems(c.items, c.lruList, data, Tail(ord), t, cap, dttl)

\* a load that takes what it finds in a file that does not parse
loadFromFileLenient(content, ord, t, cap, dttl) ==
    loadItems(EmptyItems, <<>>, content.data, ord, t, cap, dttl)

\* PersistentCache.loadFromFile on a new MemoryCache: a file that is not
\* there or does not parse leaves the cache empty
loadFromFile(content, ord, t, cap, dttl) ==
    IF content.kind # "json"
    THEN [items |-> EmptyItems, lruList |-> <<>>]
    ELSE loadItems(EmptyItems, <<>>, content.data, ord, t, cap, dttl)

\* os.Rename(from, to)
Rename(fs, from, to) ==
    IF from = to THEN fs
    ELSE [f \in DOMAIN fs |-> IF f = to THEN fs[from]
                              ELSE IF f = from THEN NoFile ELSE fs[f]]

\* ---------------------------------------------- inputs of the PersistentCache
PersistKeys == {generateCacheKey(<<"a">>, u, Environment) : u \in UserIDs}

\* the results a caller stores: one fetched from the backend, one built by
\* the caller with a Go int and an error
PersistResults ==
    {FlagResult(<<"a">>, BoolV(TRUE), "api_evaluation", None, 0, FALSE),
     FlagResult(<<"a">>, IntV(1), "default", "NetworkError", 0, FALSE)}

\* --------------------------------------------- PersistentCache, as actions
\* goroutine g has changed the MemoryCache and goes on to saveToFile
memoryChanged(g, c, op) ==
    /\ items' = c.items
    /\ lruList' = c.lruList
    /\ ppc' = [ppc EXCEPT ![g] = "save"]
    /\ tick' = tick + 1
    /\ lastOp' = [NoOp EXCEPT !.op = op]
    /\ UNCHANGED <<maxSize, pendingDelete, now, touch, lastEval, httpVars,
                   keyVars, files, saveMutex, snap, snapVer, fileVer, sweepVars, lockVars, mockVars, fetchVars, stepVars>>

\* PersistentCache.Set, up to the call of saveToFile
PersistSet(g, key, res, ttl) ==
    /\ ppc[g] = "idle" /\ tick < MaxOps
    /\ memoryChanged(g, Set(items, lruList, key, res, ttl, now, maxSize, DefaultTTL),
                     "Set")

\* a Delete that changes the MemoryCache and returns without a save
PersistDeleteNoSave(g, key) ==
    /\ ppc[g] = "idle" /\ tick < MaxOps
    /\ LET c == Delete(items, lruList, key)
       IN  /\ items' = c.items
           /\ lruList' = c.lruList
    /\ tick' = tick + 1
    /\ lastOp' = [NoOp EXCEPT !.op = "Delete"]
    /\ UNCHANGED <<maxSize, pendingDelete, now, touch, lastEval, httpVars, keyVars,
                   persistVars, sweepVars, lockVars, mockVars, fetchVars, stepVars>>

\* PersistentCache.Delete, up to the call of saveToFile
PersistDelete(g, key) ==
    /\ ppc[g] = "idle" /\ tick < MaxOps
    /\ memoryChanged(g, Delete(items, lruList, key), "Delete")

\* PersistentCache.Clear, up to the call of saveToFile
PersistClear(g) ==
    /\ ppc[g] = "idle" /\ tick < MaxOps
    /\ memoryChanged(g, Clear, "Clear")

\* the ticker branch of CacheManager.StartCleanup for a PersistentCache, up
\* to the call of saveToFile
PersistSweep(g) ==
    /\ ppc[g] = "idle" /\ tick < MaxOps
    /\ memoryChanged(g, CleanupExpired(items, lruList, now), "Sweep")

\* PersistentCache.Get: the MemoryCache's Get, nothing is saved
PersistGet(g, key) ==
    /\ ppc[g] = "idle" /\ tick < MaxOps
    /\ LET r == Get(items, lruList, key, now)
       IN  /\ lruList' = r.lruList
           /\ pendingDelete' = IF r.spawn THEN pendingDelete \cup {key}
                                ELSE pendingDelete
           /\ lastOp' = [NoOp EXCEPT !.op = "Get"]
    /\ tick' = tick + 1
    /\ UNCHANGED <<maxSize, items, now, touch, lastEval, httpVars, keyVars,
                   persistVars, sweepVars, lockVars, mockVars, fetchVars, stepVars>>

\* the goroutine started by Get runs MemoryCache.Delete: nothing is saved
PersistAsyncDelete(key) ==
    /\ key \in pendingDelete
    /\ pendingDelete' = pendingDelete \ {key}
    /\ LET c == Delete(items, lruList, key)
       IN  /\ items' = c.items
           /\ lruList' = c.lruList
    /\ UNCHANGED <<maxSize, now, histVars, lastEval, httpVars, keyVars, files,
                   saveMutex, ppc, snap, snapVer, fileVer, sweepVars, lockVars, mockVars, fetchVars, stepVars>>

\* a copy loop that is not under the MemoryCache's lock and misses the
\* entry a concurrent Set has just added
SaveCopyTorn(g) ==
    /\ ppc[g] = "save" /\ saveMutex = 0
    /\ saveMutex' = g
    /\ snap' = [snap EXCEPT ![g] =
                  IF lruList = <<>> THEN items ELSE Without(items, lruList[1])]
    /\ snapVer' = [snapVer EXCEPT ![g] = tick]
    /\ ppc' = [ppc EXCEPT ![g] = "copied"]
    /\ UNCHANGED <<cacheVars, histVars, lastEval, httpVars, keyVars, files,
                   fileVer, sweepVars, lockVars, mockVars, fetchVars, stepVars>>

\* saveToFile: c.mutex.Lock() and the copy of memoryCache.items under
\* memoryCache.mutex.RLock()
SaveCopy(g) ==
    /\ ppc[g] = "save" /\ saveMutex = 0
    /\ saveMutex' = g
    /\ snap' = [snap EXCEPT ![g] = items]
    /\ snapVer' = [snapVer EXCEPT ![g] = tick]
    /\ ppc' = [ppc EXCEPT ![g] = "copied"]
    /\ UNCHANGED <<cacheVars, histVars, lastEval, httpVars, keyVars, files,
                   fileVer, sweepVars, lockVars, mockVars, fetchVars, stepVars>>

\* saveToFile returns: the deferred c.mutex.Unlock()
saveReturn(g) ==
    /\ saveMutex' = 0
    /\ ppc' = [ppc EXCEPT ![g] = "idle"]
    /\ snap' = [snap EXCEPT ![g] = EmptyItems]
    /\ snapVer' = [snapVer EXCEPT ![g] = 0]

\* saveToFile: os.WriteFile opens the temp file with O_CREATE|O_TRUNC; when
\* that fails the file system is as before and saveToFile returns
CreateTemp(g, ok) ==
    /\ ppc[g] = "copied"
    /\ IF ok
       THEN /\ files' = [files EXCEPT ![tempFile] = Partial]
            /\ ppc' = [ppc EXCEPT ![g] = "created"]
            /\ UNCHANGED <<saveMutex, snap, snapVer>>
       ELSE /\ saveReturn(g)
            /\ UNCHANGED files
    /\ UNCHANGED <<cacheVars, histVars, lastEval, httpVars, keyVars, fileVer, sweepVars, lockVars, mockVars, fetchVars, stepVars>>

\* saveToFile: os.WriteFile writes the data and closes; when that fails the
\* temp file stays as far as it was written and saveToFile returns
WriteTemp(g, ok) ==
    /\ ppc[g] = "created"
    /\ IF ok
       THEN /\ files' = [files EXCEPT ![tempFile] = Marshal(snap[g])]
            /\ ppc' = [ppc EXCEPT ![g] = "written"]
            /\ UNCHANGED <<saveMutex, snap, snapVer>>
       ELSE /\ saveReturn(g)
            /\ UNCHANGED files
    /\ UNCHANGED <<cacheVars, histVars, lastEval, httpVars, keyVars, fileVer, sweepVars, lockVars, mockVars, fetchVars, stepVars>>

\* a rename whose failure takes the published file away
RenameTempUnlink(g, ok) ==
    /\ ppc[g] = "written"
    /\ IF ok
       THEN /\ files' = Rename(files, tempFile, filePath)
            /\ fileVer' = snapVer[g]
       ELSE /\ files' = [files EXCEPT ![filePath] = NoFile]
            /\ UNCHANGED fileVer
    /\ saveReturn(g)
    /\ UNCHANGED <<cacheVars, histVars, lastEval, httpVars, keyVars, sweepVars, lockVars, mockVars, fetchVars, stepVars>>

\* saveToFile: os.Rename(tempFile, c.filePath), its error ignored, and return
RenameTemp(g, ok) ==
    /\ ppc[g] = "written"
    /\ IF ok
       THEN /\ files' = Rename(files, tempFile, filePath)
            /\ fileVer' = snapVer[g]
       ELSE UNCHANGED <<files, fileVer>>
    /\ saveReturn(g)
    /\ UNCHANGED <<cacheVars, histVars, lastEval, httpVars, keyVars, sweepVars, lockVars, mockVars, fetchVars, stepVars>>

\* the process ends at any point, the files stay as they are, and a new
\* process calls NewPersistentCache(cap, DefaultTTL, filePath); range visits
\* the items of the file in the order ord
NewPersistentCache(cap, ord) ==
    /\ tick < MaxOps
    /\ LET c == loadFromFile(files[filePath], ord, now, cap, DefaultTTL)
       IN  /\ items' = c.items
           /\ lruList' = c.lruList
    /\ maxSize' = cap
    /\ pendingDelete' = {}
    /\ saveMutex' = 0
    /\ ppc' = [g \in Procs |-> "idle"]
    /\ snap' = [g \in Procs |-> EmptyItems]
    /\ snapVer' = [g \in Procs |-> 0]
    /\ tick' = tick + 1
    /\ lastOp' = [NoOp EXCEPT !.op = "NewPersistentCache"]
    /\ UNCHANGED <<now, touch, lastEval, httpVars, keyVars, files, fileVer, sweepVars, lockVars, mockVars, fetchVars, stepVars>>

InitPersist == EvalInit /\ otherInit

\* one goroutine calls the cache; writes fail and the process is restarted
NextPersist ==
    \/ \E key \in PersistKeys, res \in PersistResults : PersistSet(1, key, res, 0)
    \/ \E key \in PersistKeys : PersistDelete(1, key)
    \/ PersistClear(1)
    \/ PersistSweep(1)
    \/ \E key \in PersistKeys : PersistGet(1, key)
    \/ \E key \in PersistKeys : PersistAsyncDelete(key)
    \/ SaveCopy(1)
    \/ \E ok \in BOOLEAN : CreateTemp(1, ok)
    \/ \E ok \in BOOLEAN : WriteTemp(1, ok)
    \/ \E ok \in BOOLEAN : RenameTemp(1, ok)
    \/ \E cap \in 1..MaxCap, ord \in Orders(DOMAIN files[filePath].data) :
          NewPersistentCache(cap, ord)
    \/ ppc[1] = "idle" /\ Tick

SpecPersist == InitPersist /\ [][NextPersist]_vars

\* the goroutines of one process call the cache concurrently
NextSnapshot ==
    \/ \E g \in Procs, key \in PersistKeys, res \in PersistResults :
          PersistSet(g, key, res, 0)
    \/ \E g \in Procs, key \in PersistKeys : PersistDelete(g, key)
    \/ \E g \in Procs : PersistClear(g)
    \/ \E g \in Procs : PersistSweep(g)
    \/ \E g \in Procs : SaveCopy(g)
    \/ \E g \in Procs : CreateTemp(g, TRUE)
    \/ \E g \in Procs : WriteTemp(g, TRUE)
    \/ \E g \in Procs : RenameTemp(g, TRUE)
    \/ (\A g \in Procs : ppc[g] = "idle") /\ Tick

SpecSnapshot == InitPersist /\ [][NextSnapshot]_vars

\* what happens to the file at the path outside the program: its end is cut
\* off, it is replaced by text that is not JSON, or it loses its read
\* permission; os.ReadFile fails on the last, json.Unmarshal on the others
Damages == {"partial", "notjson", "unreadable"}

\* the file at the path is damaged from outside
DamageFile(kind) ==
    /\ files[filePath].kind \in {"none", "json"}
    /\ \A g \in Procs : ppc[g] = "idle"
    /\ files' = [files EXCEPT ![filePath] = [kind |-> kind, data |-> @.data]]
    /\ UNCHANGED <<cacheVars, histVars, lastEval, httpVars, keyVars, saveMutex,
                   ppc, snap, snapVer, fileVer, sweepVars, lockVars, mockVars, fetchVars, stepVars>>

\* one goroutine calls the cache, the file is damaged between two runs of
\* the process
NextLoad ==
    \/ \E key \in PersistKeys, res \in PersistResults : PersistSet(1, key, res, 0)
    \/ \E key \in PersistKeys : PersistGet(1, key)
    \/ \E key \in PersistKeys : PersistAsyncDelete(key)
    \/ SaveCopy(1)
    \/ CreateTemp(1, TRUE)
    \/ WriteTemp(1, TRUE)
    \/ RenameTemp(1, TRUE)
    \/ \E kind \in Damages : DamageFile(kind)
    \/ \E cap \in 1..MaxCap, ord \in Orders(DOMAIN files[filePath].data) :
          NewPersistentCache(cap, ord)
    \/ ppc[1] = "idle" /\ Tick

SpecLoad == InitPersist /\ [][NextLoad]_vars

\* -------------------------------------- CacheManager.StartCleanup, actions
\* the ticker of StartCleanup fires: ticker.C has room for one tick
TickerFire ==
    /\ tickerOn /\ ~tickPending
    /\ tickPending' = TRUE
    /\ UNCHANGED <<cacheVars, histVars, lastEval, httpVars, keyVars, persistVars,
                   closed, stopCh, sweepPc, tickerOn, lockVars, mockVars, fetchVars, stepVars>>

\* StartCleanup: the select takes the case <-ticker.C
SelectTick ==
    /\ sweepPc = "select" /\ tickPending
    /\ tickPending' = FALSE
    /\ sweepPc' = "sweep"
    /\ UNCHANGED <<cacheVars, histVars, lastEval, httpVars, keyVars, persistVars,
                   closed, stopCh, tickerOn, lockVars, mockVars, fetchVars, stepVars>>

\* StartCleanup: memCache.CleanupExpired(), and back to the select
SweepRun ==
    /\ sweepPc = "sweep"
    /\ LET c == CleanupExpired(items, lruList, now)
       IN  /\ items' = c.items
           /\ lruList' = c.lruList
           /\ touch' = [k \in DOMAIN c.items |-> touch[k]]
    /\ sweepPc' = "select"
    /\ UNCHANGED <<maxSize, pendingDelete, now, tick, lastOp, lastEval, httpVars,
                   keyVars, persistVars, closed, stopCh, tickPending, tickerOn, lockVars, mockVars, fetchVars, stepVars>>

\* a select that looks at stopCh only when a tick has arrived
SelectStopAtTick ==
    /\ sweepPc = "select" /\ stopCh = "closed" /\ tickPending
    /\ sweepPc' = "returned"
    /\ tickerOn' = FALSE
    /\ UNCHANGED <<cacheVars, histVars, lastEval, httpVars, keyVars, persistVars,
                   closed, stopCh, tickPending, lockVars, mockVars, fetchVars, stepVars>>

\* StartCleanup: the select takes the case <-stopCh and returns; the
\* deferred ticker.Stop() runs
SelectStop ==
    /\ sweepPc = "select" /\ stopCh = "closed"
    /\ sweepPc' = "returned"
    /\ tickerOn' = FALSE
    /\ UNCHANGED <<cacheVars, histVars, lastEval, httpVars, keyVars, persistVars,
                   closed, stopCh, tickPending, lockVars, mockVars, fetchVars, stepVars>>

\* VariablyClient.Close: the first call closes stopCh, a later one returns
Close ==
    /\ closed' = TRUE
    /\ stopCh' = IF closed THEN stopCh ELSE "closed"
    /\ UNCHANGED <<cacheVars, histVars, lastEval, httpVars, keyVars, persistVars,
                   sweepPc, tickPending, tickerOn, lockVars, mockVars, fetchVars, stepVars>>

\* callers use the cache while the sweep runs, until the client is closed
NextSweep ==
    \/ \E key \in PersistKeys :
          ~closed /\ DoSet(key, FlagResult(<<"a">>, BoolV(TRUE), "api_evaluation", None, 0, FALSE), 0)
    \/ \E key \in PersistKeys : ~closed /\ DoGet(key)
    \/ \E key \in PersistKeys : AsyncDelete(key)
    \/ Tick
    \/ TickerFire
    \/ SelectTick
    \/ SweepRun
    \/ SelectStop
    \/ Close

SpecSweep == InitCache /\ [][NextSweep]_vars

\* the scheduler runs the goroutine of StartCleanup, and a select with more
\* than one ready case takes each of them again and again; nothing makes the
\* ticker fire
SpecSweepFair == SpecSweep /\ WF_sweepPc(SweepRun) /\ SF_sweepPc(SelectStop)

\* ------------------------------- MemoryCache under its RWMutex, as actions
\* the result every Set of these goroutines stores
RaceResult == FlagResult(<<"a">>, BoolV(TRUE), "api_evaluation", None, 0, FALSE)

\* the frame of a step inside a MemoryCache method
lockFrame == UNCHANGED <<maxSize, now, touch, lastOp, lastEval, httpVars, keyVars,
                         persistVars, sweepVars, mockVars, fetchVars, stepVars>>

\* MemoryCache.Get: c.mutex.RLock()
GetRLock(g, key) ==
    /\ cpc[g] = "idle" /\ rwWriter = 0 /\ tick < MaxOps
    /\ rwReaders' = rwReaders \cup {g}
    /\ cpc' = [cpc EXCEPT ![g] = "get"]
    /\ ckey' = [ckey EXCEPT ![g] = key]
    /\ tick' = tick + 1
    /\ lockFrame
    /\ UNCHANGED <<items, lruList, pendingDelete, rwWriter>>

\* a Get that removes the expired entry itself, under its read lock
GetLookupInline(g) ==
    /\ cpc[g] = "get"
    /\ IF ckey[g] \in DOMAIN items /\ ~Expired(items[ckey[g]], now)
       THEN /\ cpc' = [cpc EXCEPT ![g] = "move"]
            /\ UNCHANGED <<rwReaders, ckey, items, lruList>>
       ELSE /\ cpc' = [cpc EXCEPT ![g] = "idle"]
            /\ rwReaders' = rwReaders \ {g}
            /\ ckey' = [ckey EXCEPT ![g] = <<>>]
            /\ items' = Delete(items, lruList, ckey[g]).items
            /\ lruList' = Delete(items, lruList, ckey[g]).lruList
    /\ lockFrame
    /\ UNCHANGED <<pendingDelete, tick, rwWriter>>

\* MemoryCache.Get: the lookup and the expiry test; a missing or expired
\* entry returns (the deferred RUnlock runs), the expired one after
\* `go c.Delete(key)`; a live entry goes on to MoveToFront
GetLookup(g) ==
    /\ cpc[g] = "get"
    /\ IF ckey[g] \in DOMAIN items /\ ~Expired(items[ckey[g]], now)
       THEN /\ cpc' = [cpc EXCEPT ![g] = "move"]
            /\ UNCHANGED <<rwReaders, ckey, pendingDelete>>
       ELSE /\ cpc' = [cpc EXCEPT ![g] = "idle"]
            /\ rwReaders' = rwReaders \ {g}
            /\ ckey' = [ckey EXCEPT ![g] = <<>>]
            /\ pendingDelete' = IF ckey[g] \in DOMAIN items
                                THEN pendingDelete \cup {ckey[g]}
                                ELSE pendingDelete
    /\ lockFrame
    /\ UNCHANGED <<items, lruList, tick, rwWriter>>

\* what a list can be after two MoveToFront calls ran on it at once
RaceOutcomes == UNION {Orders(S) : S \in SUBSET DOMAIN items}

\* MemoryCache.Get: c.lruList.MoveToFront(item.element) and the return; run
\* while another goroutine is inside MoveToFront, it is a data race on the
\* list
GetMove(g) ==
    /\ cpc[g] = "move"
    /\ IF \E h \in Procs \ {g} : cpc[h] = "move"
       THEN lruList' \in RaceOutcomes \cup {MoveToFront(lruList, ckey[g])}
       ELSE lruList' = MoveToFront(lruList, ckey[g])
    /\ cpc' = [cpc EXCEPT ![g] = "idle"]
    /\ rwReaders' = rwReaders \ {g}
    /\ ckey' = [ckey EXCEPT ![g] = <<>>]
    /\ lockFrame
    /\ UNCHANGED <<items, pendingDelete, tick, rwWriter>>

\* MemoryCache.Set, Delete, Clear, CleanupExpired: c.mutex.Lock()
WriteLock(g, op, key) ==
    /\ cpc[g] = "idle" /\ rwWriter = 0 /\ rwReaders = {} /\ tick < MaxOps
    /\ rwWriter' = g
    /\ cpc' = [cpc EXCEPT ![g] = op]
    /\ ckey' = [ckey EXCEPT ![g] = key]
    /\ tick' = tick + 1
    /\ lockFrame
    /\ UNCHANGED <<items, lruList, pendingDelete, rwReaders>>

\* MemoryCache.Set, Delete, Clear, CleanupExpired: the body under the lock,
\* and the deferred Unlock
WriteApply(g) ==
    /\ cpc[g] \in {"Set", "Delete", "Clear", "CleanupExpired"}
    /\ LET c == IF cpc[g] = "Set"
                THEN Set(items, lruList, ckey[g], RaceResult, 0, now, maxSize, DefaultTTL)
                ELSE IF cpc[g] = "Delete" THEN Delete(items, lruList, ckey[g])
                ELSE IF cpc[g] = "Clear" THEN Clear
                ELSE CleanupExpired(items, lruList, now)
       IN  /\ items' = c.items
           /\ lruList' = c.lruList
    /\ rwWriter' = 0
    /\ cpc' = [cpc EXCEPT ![g] = "idle"]
    /\ ckey' = [ckey EXCEPT ![g] = <<>>]
    /\ lockFrame
    /\ UNCHANGED <<pendingDelete, tick, rwReaders>>

\* the goroutine of `go c.Delete(key)`: Lock, the removal, Unlock
LockedAsyncDelete(key) ==
    /\ key \in pendingDelete
    /\ rwWriter = 0 /\ rwReaders = {}
    /\ pendingDelete' = pendingDelete \ {key}
    /\ LET c == Delete(items, lruList, key)
       IN  /\ items' = c.items
           /\ lruList' = c.lruList
    /\ lockFrame
    /\ UNCHANGED <<tick, lockVars>>

NextRace ==
    \/ \E g \in Procs, key \in PersistKeys : GetRLock(g, key)
    \/ \E g \in Procs : GetLookup(g)
    \/ \E g \in Procs : GetMove(g)
    \/ \E g \in Procs, key \in PersistKeys : WriteLock(g, "Set", key)
    \/ \E g \in Procs, key \in PersistKeys : WriteLock(g, "Delete", key)
    \/ \E g \in Procs : WriteLock(g, "Clear", <<>>)
    \/ \E g \in Procs : WriteLock(g, "CleanupExpired", <<>>)
    \/ \E g \in Procs : WriteApply(g)
    \/ \E key \in PersistKeys : LockedAsyncDelete(key)
    \/ Tick

SpecRace == InitPersist /\ [][NextRace]_vars

\* ------------------------------------------- MemoryCache.Set, step by step
\* the smallest capacity a MemoryCache is made with
MinCap == 0 - 1

\* MemoryCache.Set under the lock, up to the call of evictIfNeeded: an
\* existing item is updated and Set returns, a new one is put in front
SetInsert(g) ==
    /\ cpc[g] = "Set"
    /\ LET item == [value |-> RaceResult, expiration |-> now + DefaultTTL]
       IN  IF ckey[g] \in DOMAIN items
           THEN /\ items' = With(items, ckey[g], item)
                /\ lruList' = MoveToFront(lruList, ckey[g])
                /\ cpc' = [cpc EXCEPT ![g] = "unlock"]
           ELSE /\ items' = With(items, ckey[g], item)
                /\ lruList' = PushFront(lruList, ckey[g])
                /\ cpc' = [cpc EXCEPT ![g] = "evict"]
    /\ lockFrame
    /\ UNCHANGED <<pendingDelete, tick, rwReaders, rwWriter, ckey>>

\* one test of the loop of evictIfNeeded, and its body when the test holds:
\* the back of the list is removed if the list has one
EvictStep(g) ==
    /\ cpc[g] = "evict"
    /\ IF Size(items) > maxSize
       THEN /\ IF lruList # <<>>
               THEN /\ items' = Without(items, Back(lruList))
                    /\ lruList' = ListRemove(lruList, Back(lruList))
               ELSE UNCHANGED <<items, lruList>>
            /\ UNCHANGED cpc
       ELSE /\ cpc' = [cpc EXCEPT ![g] = "unlock"]
            /\ UNCHANGED <<items, lruList>>
    /\ lockFrame
    /\ UNCHANGED <<pendingDelete, tick, rwReaders, rwWriter, ckey>>

\* the deferred c.mutex.Unlock() of Set
SetUnlock(g) ==
    /\ cpc[g] = "unlock"
    /\ rwWriter' = 0
    /\ cpc' = [cpc EXCEPT ![g] = "idle"]
    /\ ckey' = [ckey EXCEPT ![g] = <<>>]
    /\ lockFrame
    /\ UNCHANGED <<items, lruList, pendingDelete, tick, rwReaders>>

\* NewMemoryCache(maxSize, defaultTTL) with any capacity
InitEvict ==
    /\ maxSize \in MinCap..MaxCap
    /\ items = EmptyItems /\ lruList = <<>> /\ pendingDelete = {}
    /\ now = 0 /\ tick = 0 /\ touch = EmptyItems
    /\ lastOp = NoOp /\ lastEval = NoEval
    /\ otherInit

\* goroutines call Set and Get on one cache
NextEvict ==
    \/ \E g \in Procs, key \in PersistKeys : WriteLock(g, "Set", key)
    \/ \E g \in Procs : SetInsert(g)
    \/ \E g \in Procs : EvictStep(g)
    \/ \E g \in Procs : SetUnlock(g)
    \/ \E g \in Procs, key \in PersistKeys : GetRLock(g, key)
    \/ \E g \in Procs : GetLookup(g)
    \/ \E g \in Procs : GetMove(g)

SpecEvict == InitEvict /\ [][NextEvict]_vars

\* a goroutine that can take a step inside a method of the cache takes it
SpecEvictFair ==
    /\ SpecEvict
    /\ \A g \in Procs :
          /\ WF_vars(SetInsert(g))
          /\ WF_vars(EvictStep(g))
          /\ WF_vars(SetUnlock(g))
          /\ WF_vars(GetLookup(g))
          /\ WF_vars(GetMove(g))

\* ------------------------------------- PersistentCache, lock by lock
\* Each method is followed from lock to lock: MemoryCache.mutex is rwReaders
\* and rwWriter, PersistentCache.mutex is saveMutex.  A goroutine at "rlock",
\* "lock", "mutex" or "copylock" is inside RLock(), Lock() or c.mutex.Lock().

\* what is left alone by a step inside a PersistentCache method
lockStepFrame == UNCHANGED <<maxSize, touch, lastOp, lastEval, httpVars, keyVars, ppc,
                             snap, snapVer, fileVer, sweepVars, cpc, ckey, mockVars,
                             fetchVars, loadSt, metSt, lastMetrics, closeSt>>

ReadOps == {"Get", "Size", "Keys"}
WriteOps == {"Set", "Delete", "Clear"}

\* goroutines inside MemoryCache.mutex.Lock(): sync.RWMutex lets no new
\* reader in while a writer waits
WriterWaits ==
    \/ \E g \in LockProcs : lockSt[g].pc = "lock"
    \/ pendingDelete # {}

\* a caller enters Get, Size, Keys, Set, Delete or Clear
LockCall(g, op, key) ==
    /\ g \in Procs
    /\ lockSt[g].pc = "idle" /\ tick < MaxOps
    /\ tick' = tick + 1
    /\ lockSt' = [lockSt EXCEPT ![g] = [pc |-> IF op \in ReadOps THEN "rlock" ELSE "lock",
                                        op |-> op, key |-> key, items |-> EmptyItems]]
    /\ UNCHANGED <<items, lruList, pendingDelete, now, files, saveMutex, rwReaders, rwWriter>>
    /\ lockStepFrame

\* StartCleanup receives a tick and enters CleanupExpired
LockSweep ==
    /\ lockSt[Sweeper].pc = "idle" /\ tick < MaxOps
    /\ tick' = tick + 1
    /\ lockSt' = [lockSt EXCEPT ![Sweeper] = [pc |-> "lock", op |-> "CleanupExpired",
                                              key |-> <<>>, items |-> EmptyItems]]
    /\ UNCHANGED <<items, lruList, pendingDelete, now, files, saveMutex, rwReaders, rwWriter>>
    /\ lockStepFrame

\* c.mutex.RLock() of Get, Size and Keys returns
MemRLock(g) ==
    /\ lockSt[g].pc = "rlock"
    /\ rwWriter = 0 /\ ~WriterWaits
    /\ rwReaders' = rwReaders \cup {g}
    /\ lockSt' = [lockSt EXCEPT ![g].pc = "rbody"]
    /\ UNCHANGED <<items, lruList, pendingDelete, now, files, saveMutex, rwWriter>>
    /\ UNCHANGED tick
    /\ lockStepFrame

\* the body of Get, Size or Keys and the deferred RUnlock
MemRead(g) ==
    /\ lockSt[g].pc = "rbody"
    /\ IF lockSt[g].op = "Get"
       THEN LET r == Get(items, lruList, lockSt[g].key, now)
            IN  /\ lruList' = r.lruList
                /\ pendingDelete' = IF r.spawn THEN pendingDelete \cup {lockSt[g].key}
                                    ELSE pendingDelete
       ELSE UNCHANGED <<lruList, pendingDelete>>
    /\ rwReaders' = rwReaders \ {g}
    /\ lockSt' = [lockSt EXCEPT ![g] = IdleLock]
    /\ UNCHANGED <<items, now, files, saveMutex, rwWriter>>
    /\ UNCHANGED tick
    /\ lockStepFrame

\* c.mutex.Lock() of Set, Delete, Clear and CleanupExpired returns
MemLock(g) ==
    /\ lockSt[g].pc = "lock"
    /\ rwWriter = 0 /\ rwReaders = {}
    /\ rwWriter' = g
    /\ lockSt' = [lockSt EXCEPT ![g].pc = "wbody"]
    /\ UNCHANGED <<items, lruList, pendingDelete, now, files, saveMutex, rwReaders>>
    /\ UNCHANGED tick
    /\ lockStepFrame

\* a method that calls saveToFile before its Unlock
MemWriteLocked(g) ==
    /\ lockSt[g].pc = "wbody"
    /\ LET op == lockSt[g].op
           c == IF op = "Set"
                THEN Set(items, lruList, lockSt[g].key, RaceResult, 0, now, maxSize,
                         DefaultTTL)
                ELSE IF op = "Delete" THEN Delete(items, lruList, lockSt[g].key)
                ELSE IF op = "Clear" THEN Clear
                ELSE CleanupExpired(items, lruList, now)
       IN  /\ items' = c.items
           /\ lruList' = c.lruList
    /\ lockSt' = [lockSt EXCEPT ![g] = [IdleLock EXCEPT !.pc = "mutex", !.op = "saveToFile"]]
    /\ UNCHANGED <<pendingDelete, now, files, saveMutex, rwReaders, rwWriter>>
    /\ UNCHANGED tick
    /\ lockStepFrame

\* the body of MemoryCache.Set, Delete, Clear or CleanupExpired and the
\* deferred Unlock; the caller goes on to saveToFile
MemWrite(g) ==
    /\ lockSt[g].pc = "wbody"
    /\ LET op == lockSt[g].op
           c == IF op = "Set"
                THEN Set(items, lruList, lockSt[g].key, RaceResult, 0, now, maxSize,
                         DefaultTTL)
                ELSE IF op = "Delete" THEN Delete(items, lruList, lockSt[g].key)
                ELSE IF op = "Clear" THEN Clear
                ELSE CleanupExpired(items, lruList, now)
       IN  /\ items' = c.items
           /\ lruList' = c.lruList
    /\ rwWriter' = 0
    /\ lockSt' = [lockSt EXCEPT ![g] = [IdleLock EXCEPT !.pc = "mutex", !.op = "saveToFile"]]
    /\ UNCHANGED <<pendingDelete, now, files, saveMutex, rwReaders>>
    /\ UNCHANGED tick
    /\ lockStepFrame

\* saveToFile: c.mutex.Lock() returns
SaveLock(g) ==
    /\ lockSt[g].pc = "mutex"
    /\ saveMutex = 0
    /\ saveMutex' = g
    /\ lockSt' = [lockSt EXCEPT ![g].pc = "copylock"]
    /\ UNCHANGED <<items, lruList, pendingDelete, now, files, rwReaders, rwWriter>>
    /\ UNCHANGED tick
    /\ lockStepFrame

\* saveToFile: c.memoryCache.mutex.RLock() returns
SaveRLock(g) ==
    /\ lockSt[g].pc = "copylock"
    /\ rwWriter = 0 /\ ~WriterWaits
    /\ rwReaders' = rwReaders \cup {g}
    /\ lockSt' = [lockSt EXCEPT ![g].pc = "copy"]
    /\ UNCHANGED <<items, lruList, pendingDelete, now, files, saveMutex, rwWriter>>
    /\ UNCHANGED tick
    /\ lockStepFrame

\* saveToFile: the copy of the items and RUnlock
SaveCopyItems(g) ==
    /\ lockSt[g].pc = "copy"
    /\ rwReaders' = rwReaders \ {g}
    /\ lockSt' = [lockSt EXCEPT ![g].pc = "write", ![g].items = items]
    /\ UNCHANGED <<items, lruList, pendingDelete, now, files, saveMutex, rwWriter>>
    /\ UNCHANGED tick
    /\ lockStepFrame

\* saveToFile: Marshal, WriteFile (ok, or a failure to open the temporary
\* file, which returns early), Rename and the deferred c.mutex.Unlock()
SaveWrite(g, ok) ==
    /\ lockSt[g].pc = "write"
    /\ files' = IF ok
                THEN [files EXCEPT ![filePath] = Marshal(lockSt[g].items)]
                ELSE files
    /\ saveMutex' = 0
    /\ lockSt' = [lockSt EXCEPT ![g] = IdleLock]
    /\ UNCHANGED <<items, lruList, pendingDelete, now, rwReaders, rwWriter>>
    /\ UNCHANGED tick
    /\ lockStepFrame

\* the goroutine of `go c.Delete(key)`: Lock, the removal, Unlock
LockAsyncDelete(key) ==
    /\ key \in pendingDelete
    /\ rwWriter = 0 /\ rwReaders = {}
    /\ pendingDelete' = pendingDelete \ {key}
    /\ LET c == Delete(items, lruList, key)
       IN  /\ items' = c.items
           /\ lruList' = c.lruList
    /\ UNCHANGED <<now, files, saveMutex, rwReaders, rwWriter, lockSt>>
    /\ UNCHANGED tick
    /\ lockStepFrame

\* the clock advances
LockTick ==
    /\ now < MaxTime
    /\ now' = now + 1
    /\ UNCHANGED <<items, lruList, pendingDelete, files, saveMutex, rwReaders,
                   rwWriter, lockSt>>
    /\ UNCHANGED tick
    /\ lockStepFrame

\* the keys the callers of the durable store use
LockKeys == {generateCacheKey(<<"a">>, <<"a">>, Environment)}

NextLocks ==
    \/ \E g \in Procs, op \in ReadOps \cup WriteOps, key \in LockKeys : LockCall(g, op, key)
    \/ LockSweep
    \/ \E g \in LockProcs : MemRLock(g)
    \/ \E g \in LockProcs : MemRead(g)
    \/ \E g \in LockProcs : MemLock(g)
    \/ \E g \in LockProcs : MemWrite(g)
    \/ \E g \in LockProcs : SaveLock(g)
    \/ \E g \in LockProcs : SaveRLock(g)
    \/ \E g \in LockProcs : SaveCopyItems(g)
    \/ \E g \in LockProcs, ok \in BOOLEAN : SaveWrite(g, ok)
    \/ \E key \in LockKeys : LockAsyncDelete(key)
    \/ LockTick

\* a durable store of capacity 1 on a path where no file is
InitLocks == InitPersist /\ maxSize = 1

SpecLocks == InitLocks /\ [][NextLocks]_vars

\* a step of a goroutine that is inside a method or was started by one
LockStep ==
    \/ \E g \in LockProcs : MemRLock(g) \/ MemRead(g) \/ MemLock(g) \/ MemWrite(g)
    \/ \E g \in LockProcs : SaveLock(g) \/ SaveRLock(g) \/ SaveCopyItems(g)
    \/ \E g \in LockProcs, ok \in BOOLEAN : SaveWrite(g, ok)
    \/ \E key \in LockKeys : LockAsyncDelete(key)

\* while a goroutine can run, one does
SpecLocksFair == SpecLocks /\ WF_vars(LockStep)

\* ------------------------------------- MetricsCollector, load by load
\* what is left alone by a step inside a MetricsCollector method
metricsFrame == UNCHANGED <<cacheVars, touch, lastOp, lastEval, retryAttempts, pc,
                            attempt, hasResult, reqErr, lastErr, lastResp, seen,
                            ctxDone, result, nAttempts, nWaits, lastWait, reported,
                            slept, keyVars, persistVars, sweepVars, lockVars, mockVars,
                            fetchVars, loadSt, lockSt, closeSt>>

\* RecordAPICall: atomic.AddInt64(&m.apiCalls, 1); a call that succeeded
\* has nothing more to count
MetricsAddCall(g, success) ==
    /\ metSt[g].pc = "idle" /\ tick < MaxOps
    /\ tick' = tick + 1
    /\ metrics' = [metrics EXCEPT !.apiCalls = @ + 1]
    /\ metSt' = [metSt EXCEPT ![g].pc = IF success THEN "idle" ELSE "addError"]
    /\ UNCHANGED lastMetrics
    /\ metricsFrame

\* RecordAPICall: atomic.AddInt64(&m.errorCount, 1)
MetricsAddError(g) ==
    /\ metSt[g].pc = "addError"
    /\ metrics' = [metrics EXCEPT !.errorCount = @ + 1]
    /\ metSt' = [metSt EXCEPT ![g].pc = "idle"]
    /\ UNCHANGED <<tick, lastMetrics>>
    /\ metricsFrame

\* GetMetrics: apiCalls := atomic.LoadInt64(&m.apiCalls)
MetricsLoadCalls(g) ==
    /\ metSt[g].pc = "idle" /\ tick < MaxOps
    /\ tick' = tick + 1
    /\ metSt' = [metSt EXCEPT ![g] = [pc |-> "loadErrors", apiCalls |-> metrics.apiCalls]]
    /\ UNCHANGED <<metrics, lastMetrics>>
    /\ metricsFrame

\* float64(errorCount) / float64(apiCalls) * 100, in whole percent
errorRate(errorCount, apiCalls) ==
    IF apiCalls > 0 THEN (errorCount * 100) \div apiCalls ELSE 0

\* GetMetrics: errorCount := atomic.LoadInt64(&m.errorCount), the rates and
\* the Metrics returned
MetricsLoadErrors(g) ==
    /\ metSt[g].pc = "loadErrors"
    /\ lastMetrics' = [APICalls |-> metSt[g].apiCalls,
                       ErrorCount |-> metrics.errorCount,
                       ErrorRate |-> errorRate(metrics.errorCount, metSt[g].apiCalls),
                       taken |-> TRUE]
    /\ metSt' = [metSt EXCEPT ![g] = IdleMetrics]
    /\ UNCHANGED <<tick, metrics>>
    /\ metricsFrame

\* Reset: atomic.StoreInt64(&m.apiCalls, 0)
MetricsResetCalls(g) ==
    /\ metSt[g].pc = "idle" /\ tick < MaxOps
    /\ tick' = tick + 1
    /\ metrics' = [metrics EXCEPT !.apiCalls = 0]
    /\ metSt' = [metSt EXCEPT ![g].pc = "resetErrors"]
    /\ UNCHANGED lastMetrics
    /\ metricsFrame

\* Reset: atomic.StoreInt64(&m.errorCount, 0)
MetricsResetErrors(g) ==
    /\ metSt[g].pc = "resetErrors"
    /\ metrics' = [metrics EXCEPT !.errorCount = 0]
    /\ metSt' = [metSt EXCEPT ![g].pc = "idle"]
    /\ UNCHANGED <<tick, lastMetrics>>
    /\ metricsFrame

\* goroutines record calls, reset the collector and take snapshots
NextMetrics ==
    \/ \E g \in Procs, success \in BOOLEAN : MetricsAddCall(g, success)
    \/ \E g \in Procs : MetricsAddError(g)
    \/ \E g \in Procs : MetricsLoadCalls(g)
    \/ \E g \in Procs : MetricsLoadErrors(g)
    \/ \E g \in Procs : MetricsResetCalls(g)
    \/ \E g \in Procs : MetricsResetErrors(g)

\* NewMetricsCollector: every counter is zero
InitMetrics == InitPersist /\ maxSize = 1

SpecMetrics == InitMetrics /\ [][NextMetrics]_vars

\* ------------------------------------------- VariablyClient.Close, by step
\* what is left alone by a step inside Close or ensureNotClosed
closeFrame == UNCHANGED <<cacheVars, touch, lastOp, lastEval, httpVars, keyVars,
                          persistVars, sweepPc, tickPending, tickerOn, lockVars,
                          mockVars, fetchVars, loadSt, lockSt, metSt, lastMetrics>>

\* a goroutine calls Close and is inside c.closeMux.Lock()
CloseCall(g) ==
    /\ closeSt.pc[g] = "idle" /\ tick < MaxOps
    /\ tick' = tick + 1
    /\ closeSt' = [closeSt EXCEPT !.pc[g] = "lock"]
    /\ UNCHANGED <<closed, stopCh>>
    /\ closeFrame

\* a Close that does not wait for closeMux
CloseNoLock(g) ==
    /\ closeSt.pc[g] = "lock"
    /\ closeSt' = [closeSt EXCEPT !.pc[g] = "check"]
    /\ UNCHANGED <<closed, stopCh, tick>>
    /\ closeFrame

\* Close: c.closeMux.Lock() returns
CloseLock(g) ==
    /\ closeSt.pc[g] = "lock"
    /\ closeSt.mux = 0
    /\ closeSt' = [closeSt EXCEPT !.pc[g] = "check", !.mux = g]
    /\ UNCHANGED <<closed, stopCh, tick>>
    /\ closeFrame

\* Close: `if c.closed { return nil }`, with the deferred Unlock
CloseCheck(g) ==
    /\ closeSt.pc[g] = "check"
    /\ closeSt' = IF closed
                  THEN [closeSt EXCEPT !.pc[g] = "idle", !.mux = 0,
                                       !.returned = @ + 1]
                  ELSE [closeSt EXCEPT !.pc[g] = "close"]
    /\ UNCHANGED <<closed, stopCh, tick>>
    /\ closeFrame

\* Close: c.closed = true; close(c.stopCh), which panics on a channel that
\* is closed already; `return nil` with the deferred Unlock
CloseStop(g) ==
    /\ closeSt.pc[g] = "close"
    /\ closed' = TRUE
    /\ stopCh' = "closed"
    /\ closeSt' = IF stopCh = "closed"
                  THEN [closeSt EXCEPT !.pc[g] = "idle", !.mux = 0,
                                       !.panics = @ + 1]
                  ELSE [closeSt EXCEPT !.pc[g] = "idle", !.mux = 0,
                                       !.closes = @ + 1, !.returned = @ + 1]
    /\ UNCHANGED tick
    /\ closeFrame

\* ensureNotClosed, called by a public method: Lock, the test of c.closed
\* (the method panics if it holds) and Unlock
EnsureNotClosed(g) ==
    /\ closeSt.pc[g] = "idle" /\ tick < MaxOps
    /\ closeSt.mux = 0
    /\ tick' = tick + 1
    /\ closeSt' = [closeSt EXCEPT !.rejected = closed]
    /\ UNCHANGED <<closed, stopCh>>
    /\ closeFrame

\* goroutines call Close and the public methods while StartCleanup runs
NextClose ==
    \/ \E g \in Procs : CloseCall(g)
    \/ \E g \in Procs : CloseLock(g)
    \/ \E g \in Procs : CloseCheck(g)
    \/ \E g \in Procs : CloseStop(g)
    \/ \E g \in Procs : EnsureNotClosed(g)
    \/ TickerFire
    \/ SelectTick
    \/ SweepRun
    \/ SelectStop

SpecClose == InitCache /\ [][NextClose]_vars

\* ------------------------------------------------------------- MockClient
Int64V(n) == <<"int64", n>>

\* a MockClient that ignores what SetFlagValue configured
MockEvaluateFlagDefault(fv, flagKey, defaultValue, t) ==
    FlagResult(flagKey, defaultValue, "default", None, t, FALSE)

\* MockClient.EvaluateFlag
MockEvaluateFlag(fv, flagKey, defaultValue, t) ==
    IF flagKey \in DOMAIN fv
    THEN FlagResult(flagKey, fv[flagKey], "mock_rule", None, t, FALSE)
    ELSE FlagResult(flagKey, defaultValue, "default", None, t, FALSE)

\* the typed accessors of MockClient, applied to the result of its
\* EvaluateFlag(ctx, flagKey, defaultValue, userContext)
MockEvaluateFlagBool(res, defaultValue) ==
    IF res.Value[1] = "bool" THEN res.Value ELSE defaultValue

MockEvaluateFlagString(res, defaultValue) ==
    IF res.Value[1] = "string" THEN res.Value ELSE defaultValue

MockEvaluateFlagInt(res, defaultValue) ==
    IF res.Value[1] = "int" THEN res.Value
    ELSE IF res.Value[1] = "int64" THEN IntV(res.Value[2])
    ELSE IF res.Value[1] = "float64" THEN IntV(res.Value[2] \div 10)
    ELSE defaultValue

MockEvaluateFlagFloat(res, defaultValue) ==
    IF res.Value[1] = "float64" THEN res.Value
    ELSE IF res.Value[1] \in {"int", "int64"} THEN FloatV(res.Value[2] * 10)
    ELSE defaultValue

MockEvaluateFlagJSON(res, defaultValue) == res.Value

\* what the caller of accessor acc of the MockClient gets back
MockReturned(acc, res, defaultValue) ==
    CASE acc = "Flag" -> res.Value
      [] acc = "Bool" -> MockEvaluateFlagBool(res, defaultValue)
      [] acc = "String" -> MockEvaluateFlagString(res, defaultValue)
      [] acc = "Int" -> MockEvaluateFlagInt(res, defaultValue)
      [] acc = "Float" -> MockEvaluateFlagFloat(res, defaultValue)
      [] acc = "JSON" -> MockEvaluateFlagJSON(res, defaultValue)

\* MockClient.EvaluateGate
MockEvaluateGate(gv, gateKey) ==
    IF gateKey \in DOMAIN gv THEN gv[gateKey] ELSE FALSE

\* MockClient.EvaluateFlags: one EvaluateFlag with a nil default per element
\* of flagKeys, stored under the flag key
MockEvaluateFlags(fv, flagKeys, t) ==
    [k \in Range(flagKeys) |-> MockEvaluateFlag(fv, k, NilV, t)]

\* the values a test configures, and the batches it asks for
MockValues == {BoolV(FALSE), StrV("dark"), IntV(20), Int64V(30), FloatV(25), NilV}
MockBatches == {<<f>> : f \in FlagKeys} \cup {<<f, g>> : f, g \in FlagKeys}

\* a test calls SetFlagValue(flagKey, value)
SetFlagValue(flagKey, value) ==
    /\ flagValues' = With(flagValues, flagKey, value)
    /\ lastMock' = NoMock
    /\ UNCHANGED <<gateValues, mockMetrics, cacheVars, histVars, lastEval, httpVars,
                   keyVars, persistVars, sweepVars, lockVars, fetchVars, stepVars>>

\* a test calls SetGateValue(gateKey, value)
SetGateValue(gateKey, value) ==
    /\ gateValues' = With(gateValues, gateKey, value)
    /\ lastMock' = NoMock
    /\ UNCHANGED <<flagValues, mockMetrics, cacheVars, histVars, lastEval, httpVars,
                   keyVars, persistVars, sweepVars, lockVars, fetchVars, stepVars>>

\* a test calls Reset()
MockReset ==
    /\ flagValues' = EmptyItems
    /\ gateValues' = EmptyItems
    /\ mockMetrics' = [flagsEvaluated |-> 0, gatesEvaluated |-> 0]
    /\ lastMock' = NoMock
    /\ UNCHANGED <<cacheVars, histVars, lastEval, httpVars, keyVars, persistVars,
                   sweepVars, lockVars, fetchVars, stepVars>>

\* a test evaluates one flag through an accessor of the MockClient
DoMockEvaluateFlag(acc, flagKey) ==
    /\ mockMetrics.flagsEvaluated < MaxCalls
    /\ mockMetrics' = [mockMetrics EXCEPT !.flagsEvaluated = @ + 1]
    /\ LET res == MockEvaluateFlag(flagValues, flagKey, acc[2], now)
       IN  lastMock' = [op |-> "EvaluateFlag", keys |-> <<flagKey>>,
                        accessor |-> acc[1], defaultValue |-> acc[2],
                        results |-> (flagKey :> res),
                        returned |-> MockReturned(acc[1], res, acc[2])]
    /\ UNCHANGED <<flagValues, gateValues, cacheVars, histVars, lastEval, httpVars,
                   keyVars, persistVars, sweepVars, lockVars, fetchVars, stepVars>>

\* a test evaluates a gate of the MockClient
DoMockEvaluateGate(gateKey) ==
    /\ mockMetrics.gatesEvaluated < MaxCalls
    /\ mockMetrics' = [mockMetrics EXCEPT !.gatesEvaluated = @ + 1]
    /\ lastMock' = [NoMock EXCEPT !.op = "EvaluateGate", !.keys = <<gateKey>>,
                                  !.accessor = "Gate",
                                  !.returned = BoolV(MockEvaluateGate(gateValues, gateKey))]
    /\ UNCHANGED <<flagValues, gateValues, cacheVars, histVars, lastEval, httpVars,
                   keyVars, persistVars, sweepVars, lockVars, fetchVars, stepVars>>

\* a test evaluates a batch of flags of the MockClient
DoMockEvaluateFlags(flagKeys) ==
    /\ mockMetrics.flagsEvaluated + Len(flagKeys) <= MaxCalls
    /\ mockMetrics' = [mockMetrics EXCEPT !.flagsEvaluated = @ + Len(flagKeys)]
    /\ lastMock' = [NoMock EXCEPT !.op = "EvaluateFlags", !.keys = flagKeys,
                                  !.accessor = "Flags",
                                  !.results = MockEvaluateFlags(flagValues, flagKeys, now)]
    /\ UNCHANGED <<flagValues, gateValues, cacheVars, histVars, lastEval, httpVars,
                   keyVars, persistVars, sweepVars, lockVars, fetchVars, stepVars>>

InitMock == InitPersist /\ maxSize = 1

NextMock ==
    \/ \E f \in FlagKeys, v \in MockValues : SetFlagValue(f, v)
    \/ \E g \in FlagKeys, b \in BOOLEAN : SetGateValue(g, b)
    \/ MockReset
    \/ \E acc \in Accessors, f \in FlagKeys : DoMockEvaluateFlag(acc, f)
    \/ \E g \in FlagKeys : DoMockEvaluateGate(g)
    \/ \E q \in MockBatches : DoMockEvaluateFlags(q)

SpecMock == InitMock /\ [][NextMock]_vars

\* ------------------------------------- Evaluator.EvaluateFlag, goroutines
\* what is left alone by a step inside EvaluateFlag
fetchFrame == UNCHANGED <<maxSize, touch, lastOp, lastEval, httpVars, keyVars,
                          persistVars, sweepVars, lockVars, mockVars, stepVars>>

\* the fetch outcomes of the concurrent evaluations
ConcOutcomes == {out \in FetchOutcomes : out.err \in {None, "NetworkError"}}

\* EvaluateFlag up to the fetch: the key, the Get, and on a hit the return;
\* the goroutine's previous call, if any, has returned
EvalLookup(g, flagKey, userID) ==
    /\ evalProc[g].pc \in {"idle", "done"} /\ tick < MaxOps
    /\ tick' = tick + 1
    /\ LET key == generateCacheKey(flagKey, userID, Environment)
           r == Get(items, lruList, key, now)
       IN  /\ lruList' = r.lruList
           /\ pendingDelete' = IF r.spawn THEN pendingDelete \cup {key}
                                ELSE pendingDelete
           /\ evalProc' = [evalProc EXCEPT ![g] =
                 [pc |-> IF r.found THEN "done" ELSE "fetch", flag |-> flagKey,
                  key |-> key, start |-> tick + 1, fetched |-> ~r.found,
                  result |-> IF r.found THEN [r.value EXCEPT !.CacheHit = TRUE]
                             ELSE ZeroResult]]
    /\ UNCHANGED <<items, now, fetchHist>>
    /\ fetchFrame

\* evaluateFlagFromAPI returns: the HTTP client has answered with `out` and
\* the result is stamped with time.Now()
EvalFetched(g, out) ==
    /\ evalProc[g].pc = "fetch"
    /\ evalProc' = [evalProc EXCEPT ![g].pc = "fetched",
                       ![g].result = evaluateFlagFromAPI(evalProc[g].flag, StrV("d"),
                                                         out, now)]
    /\ UNCHANGED <<items, lruList, pendingDelete, now, tick, fetchHist>>
    /\ fetchFrame

\* EvaluateFlag after the fetch: `if result.Error == nil` the result is set
\* in the cache, whatever the cache holds by now
EvalStore(g) ==
    /\ evalProc[g].pc = "fetched"
    /\ LET res == evalProc[g].result
           key == evalProc[g].key
           c == IF cacheable(res)
                THEN ManagerSet(items, lruList, key, res, 0, now, maxSize, DefaultTTL)
                ELSE [items |-> items, lruList |-> lruList]
       IN  /\ items' = c.items
           /\ lruList' = c.lruList
           /\ fetchHist' = [fetchHist EXCEPT !.origin =
                 [k \in DOMAIN c.items |->
                     IF k = key /\ cacheable(res) THEN evalProc[g].start
                     ELSE IF k \in DOMAIN @ THEN @[k] ELSE 0]]
    /\ evalProc' = [evalProc EXCEPT ![g].pc = "done"]
    /\ UNCHANGED <<pendingDelete, now, tick>>
    /\ fetchFrame

\* Evaluator.RefreshCache / ClearCache, called while evaluations are under
\* way or not
FetchRefresh ==
    /\ tick < MaxOps
    /\ tick' = tick + 1
    /\ items' = Clear.items
    /\ lruList' = Clear.lruList
    /\ fetchHist' = [clearTick |-> tick + 1, origin |-> [x \in {} |-> 0]]
    /\ UNCHANGED <<pendingDelete, now, evalProc>>
    /\ fetchFrame

\* the removal goroutine of an expired Get
FetchAsyncDelete(key) ==
    /\ key \in pendingDelete
    /\ pendingDelete' = pendingDelete \ {key}
    /\ LET c == Delete(items, lruList, key)
       IN  /\ items' = c.items
           /\ lruList' = c.lruList
           /\ fetchHist' = [fetchHist EXCEPT !.origin =
                               [k \in DOMAIN c.items |-> @[k]]]
    /\ UNCHANGED <<now, tick, evalProc>>
    /\ fetchFrame

\* the clock advances
FetchTick ==
    /\ now < MaxTime
    /\ now' = now + 1
    /\ UNCHANGED <<items, lruList, pendingDelete, tick, fetchVars, stepVars>>
    /\ fetchFrame

InitFetch == InitEval

NextFetch ==
    \/ \E g \in Procs, u \in UserIDs : EvalLookup(g, <<"a">>, u)
    \/ \E g \in Procs, out \in ConcOutcomes : EvalFetched(g, out)
    \/ \E g \in Procs : EvalStore(g)
    \/ FetchRefresh
    \/ \E key \in PersistKeys : FetchAsyncDelete(key)
    \/ FetchTick

SpecFetch == InitFetch /\ [][NextFetch]_vars

\* ------------------------------------------ loadFromFile, clock reads
\* The clock moves between the three reads of loadFromFile's loop: `now`
\* (cache.go:246), time.Until (cache.go:249) and the time.Now() of
\* MemoryCache.Set (cache.go:67).

\* what is left alone by a step of loadFromFile
loadFrame == UNCHANGED <<maxSize, pendingDelete, histVars, lastEval, httpVars, keyVars,
                         saveMutex, ppc, snap, snapVer, fileVer, sweepVars,
                         lockVars, mockVars, fetchVars, lockSt, metSt, lastMetrics,
                         closeSt>>

\* the snapshots a run of the process leaves behind: entries of the keys,
\* each with the expiration persisted for it
SnapshotFiles ==
    {JSONFile(d) :
        d \in UNION {[S -> [value : {encodeResult(r) : r \in PersistResults},
                            expiration : 1..MaxTime]] : S \in SUBSET PersistKeys}}

\* the process is started where an earlier run left the snapshot file f
PreviousRun(f) ==
    /\ loadSt.pc = "idle"
    /\ files[filePath] = NoFile
    /\ files' = [files EXCEPT ![filePath] = f]
    /\ UNCHANGED <<items, lruList, now, loadSt>>
    /\ loadFrame

\* loadFromFile reads and parses the file and reads the clock into `now`;
\* the range over cacheData.Items will go in the order ord
LoadRead(ord) ==
    /\ loadSt.pc = "idle"
    /\ files[filePath].kind = "json"
    /\ loadSt' = [pc |-> "check", now |-> now, rest |-> ord, ttl |-> 0]
    /\ UNCHANGED <<items, lruList, now, files>>
    /\ loadFrame

\* the expiry check of the next item of the file: now.Before(item.Expiration)
LoadCheck ==
    /\ loadSt.pc = "check"
    /\ loadSt.rest # <<>>
    /\ loadSt' = IF loadSt.now < files[filePath].data[Head(loadSt.rest)].expiration
                 THEN [loadSt EXCEPT !.pc = "until"]
                 ELSE [loadSt EXCEPT !.rest = Tail(@)]
    /\ UNCHANGED <<items, lruList, now, files>>
    /\ loadFrame

\* ttl := time.Until(item.Expiration), a new read of the clock
LoadUntil ==
    /\ loadSt.pc = "until"
    /\ loadSt' = [loadSt EXCEPT !.pc = "set",
                    !.ttl = files[filePath].data[Head(loadSt.rest)].expiration - now]
    /\ UNCHANGED <<items, lruList, now, files>>
    /\ loadFrame

\* c.memoryCache.Set(key, item.Value, ttl), which reads the clock again
LoadSet ==
    /\ loadSt.pc = "set"
    /\ LET key == Head(loadSt.rest)
           c == Set(items, lruList, key,
                    decodeResult(files[filePath].data[key].value),
                    loadSt.ttl, now, maxSize, DefaultTTL)
       IN  /\ items' = c.items
           /\ lruList' = c.lruList
    /\ loadSt' = [loadSt EXCEPT !.pc = "check", !.rest = Tail(@), !.ttl = 0]
    /\ UNCHANGED <<now, files>>
    /\ loadFrame

\* the loop is over, loadFromFile returns
LoadReturn ==
    /\ loadSt.pc = "check"
    /\ loadSt.rest = <<>>
    /\ loadSt' = [loadSt EXCEPT !.pc = "done"]
    /\ UNCHANGED <<items, lruList, now, files>>
    /\ loadFrame

\* the clock advances, before and while the file is loaded
LoadTick ==
    /\ loadSt.pc # "done"
    /\ now < MaxTime + 1
    /\ now' = now + 1
    /\ UNCHANGED <<items, lruList, loadSt, files>>
    /\ loadFrame

InitReload == InitPersist /\ maxSize = MaxCap

NextReload ==
    \/ \E f \in SnapshotFiles : PreviousRun(f)
    \/ \E ord \in Orders(DOMAIN files[filePath].data) : LoadRead(ord)
    \/ LoadCheck
    \/ LoadUntil
    \/ LoadSet
    \/ LoadReturn
    \/ LoadTick

SpecReload == InitReload /\ [][NextReload]_vars

\* ------------------------------------------------------------ claims, cache
\* C1: the number of entries never exceeds the capacity the cache was built
\* with, in every state between two cache calls.
C1_Capacity == Size(items) <= maxSize

\* a Set of a new key found the cache full and evicted, leaving it full
C1_Witness ==
    /\ lastOp.op = "Set" /\ lastOp.evicted # {}
    /\ maxSize > 0 /\ Size(items) = maxSize

\* the step is a Set that evicted
SetEvicts == tick' = tick + 1 /\ lastOp'.op = "Set" /\ lastOp'.evicted # {}

\* last touch of k as the eviction loop sees it: the key being set has just
\* been touched
TouchAtEvict(k) == IF k = lastOp'.key THEN tick' ELSE touch[k]

\* C2 as claimed: the victim of an overflowing Set is the least recently
\* touched entry, and the entry just inserted is kept.
C2_AsClaimed ==
    [][SetEvicts =>
        /\ lastOp'.key \in DOMAIN items'
        /\ \A v \in lastOp'.evicted : \A k \in DOMAIN items' :
              TouchAtEvict(v) < TouchAtEvict(k)]_vars

\* C2: the victim of an overflowing Set is the entry, among those present
\* once the new key is inserted, whose last touch is the oldest; exactly one
\* entry is removed, every entry touched more recently is kept, and the entry
\* just inserted is kept whenever the capacity is at least 1.
C2_StrictLRU ==
    [][SetEvicts =>
        /\ Cardinality(lastOp'.evicted) = 1
        /\ DOMAIN items' = ((DOMAIN items) \cup {lastOp'.key}) \ lastOp'.evicted
        /\ \A v \in lastOp'.evicted : \A k \in DOMAIN items' :
              TouchAtEvict(v) < TouchAtEvict(k)
        /\ (maxSize >= 1 => lastOp'.key \in DOMAIN items')]_vars

\* an eviction happened where the list order differs from the order of
\* insertion: the victim was inserted after a survivor that a Get refreshed
C2_Witness ==
    /\ lastOp.op = "Set" /\ lastOp.evicted # {}
    /\ maxSize = 2
    /\ \E k \in DOMAIN items : k # lastOp.key /\ touch[k] > 2

\* C3: a Get that returns found returns an entry whose expiration is not in
\* the past; a Get on an entry whose expiration has passed returns not-found.
C3_TTL ==
    (lastOp.op = "Get" /\ lastOp.found) =>
        (lastOp.present /\ lastOp.at <= lastOp.expiration)

\* a Get returned not-found for an expired entry that no sweep and no
\* removal has taken out of the map yet
C3_Witness ==
    /\ lastOp.op = "Get" /\ ~lastOp.found /\ lastOp.present
    /\ lastOp.at > lastOp.expiration
    /\ lastOp.key \in DOMAIN items
\* -------------------------------------------------------- claims, evaluator
\* the flag keys of the last evaluation whose result carries an error
FailedKeys ==
    IF lastEval = NoEval THEN {}
    ELSE {fk \in Range(lastEval.keys) : lastEval.results[fk].Error # None}

C5_FallbackToDefault ==
    (lastEval # NoEval /\ lastEval.op = "EvaluateFlag" /\ lastEval.fetchErr # None) =>
        LET r == lastEval.results[lastEval.keys[1]]
        IN  /\ r.Value = lastEval.defaultValue
            /\ r.Reason = "error_fallback"
            /\ r.Error = lastEval.fetchErr
            /\ ~r.CacheHit
            /\ IF lastEval.accessor = "Flag" THEN lastEval.returned = r
               ELSE lastEval.returned = lastEval.defaultValue

\* every typed accessor has returned its default after a failed fetch, here
\* the integer one after a cancelled context
C5_Witness ==
    /\ lastEval # NoEval /\ lastEval.op = "EvaluateFlag"
    /\ lastEval.accessor = "Int" /\ lastEval.fetchErr = "context"
    /\ lastEval.returned = IntV(7)
\* ---------------------------------------------------- claims, cache keys
\* C6: the key of an input is the key of no other input: whatever differs
\* between two inputs (namespace, entity key, user identity, environment),
\* their keys differ, so two (entity key, user) pairs never share an entry.
C6_AsClaimed ==
    keyIn # NoKeyIn =>
        /\ deriveKey(keyIn) = cacheKey
        /\ \A other \in KeyInputs : other # keyIn => deriveKey(other) # cacheKey

\* ---------------------------------------------------- claims, HTTP client
\* every attempt of the call so far met a response of a retryable status
\* (5xx, 408 or 429) and the context has not ended
AllRetryableStatus ==
    nAttempts >= 1 /\ seen \subseteq {"5xx", "408/429"} /\ ~ctxDone

\* C7 as claimed: a call whose attempts all fail with a retryable error makes
\* retryAttempts + 1 attempts and retryAttempts waits and returns the error
\* of the last attempt, which is a NetworkError.
C7_AsClaimed ==
    (pc = "done" /\ AllRetryableStatus) =>
        /\ nAttempts = retryAttempts + 1 /\ nWaits = retryAttempts
        /\ result = reqErr /\ result.kind = "NetworkError"

\* C7: a call whose attempts all fail with a retryable status makes
\* retryAttempts + 1 attempts and retryAttempts waits and returns the error
\* of the last attempt; that error is a NetworkError carrying the last status
\* when the status is 5xx, and a NetworkError, RateLimitError or TimeoutError
\* when it is 429 or 408.
C7_RetryBound ==
    (pc = "done" /\ AllRetryableStatus) =>
        /\ nAttempts = retryAttempts + 1 /\ nWaits = retryAttempts
        /\ result = reqErr /\ result = lastErr
        /\ lastResp.status >= 500 =>
              (result.kind = "NetworkError" /\ result.status = lastResp.status)
        /\ lastResp.status \in {408, 429} =>
              result.kind \in {"NetworkError", "RateLimitError", "TimeoutError"}

\* a backend that answered 502 to every attempt, with the largest retry count
C7_Witness ==
    /\ pc = "done" /\ AllRetryableStatus /\ seen = {"5xx"}
    /\ retryAttempts = MaxRetry /\ nAttempts = MaxRetry + 1 /\ nWaits = MaxRetry
    /\ lastResp.status = 502 /\ result.kind = "NetworkError"

\* the step is an attempt
AttemptStep == nAttempts' = nAttempts + 1

\* C8: the attempt that fails with an error IsRetryable refuses ends the
\* call in the same step, without a wait, with that error as the return
\* value; a call that has ended makes no attempt and no wait.
C8_NonRetryableEnds ==
    [][/\ (AttemptStep /\ reqErr' # Nil /\ ~IsRetryable(reqErr')) =>
              (pc' = "done" /\ result' = reqErr' /\ nWaits' = nWaits)
       /\ pc = "done" =>
              (pc' = "idle" /\ nAttempts' = nAttempts /\ nWaits' = nWaits
               /\ result' = result)]_vars

\* a retried call ended on a 401 with retries left
C8_Witness ==
    /\ pc = "done" /\ result.kind = "AuthenticationError"
    /\ nAttempts = 2 /\ nWaits = 1 /\ attempt < retryAttempts

\* C9: an attempt that fails without a response (the connection fails, the
\* context has not ended) gives a NetworkError and, with attempts remaining,
\* the call goes on to the backoff wait.
C9_AsClaimed ==
    [][(AttemptStep /\ lastResp'.type = "transport" /\ lastResp'.cause = "conn") =>
          /\ reqErr'.kind = "NetworkError"
          /\ attempt < retryAttempts => pc' = "wait"]_vars

\* the decision table of status codes
TableKind(status) ==
    CASE status = 401 -> "AuthenticationError"
      [] status = 400 -> "ValidationError"
      [] status = 429 -> "RateLimitError"
      [] status = 408 -> "TimeoutError"
      [] OTHER -> "NetworkError"

TableRetried(status) == status >= 500 \/ status \in {408, 429}

\* the step is an attempt that receives a whole response of status >= 400
HTTPErrorStep ==
    AttemptStep /\ lastResp'.type = "http" /\ lastResp'.status >= 400

\* the call does with the attempt's error what the table says for the status
TableDecision ==
    IF TableRetried(lastResp'.status) /\ attempt < retryAttempts
    THEN pc' = "wait" /\ result' = Pending
    ELSE pc' = "done" /\ result' = reqErr'

\* C10 as claimed: whatever the body, the error kind and the retry decision
\* are those of the table.
C10_AsClaimed ==
    [][HTTPErrorStep =>
          (reqErr'.kind = TableKind(lastResp'.status) /\ TableDecision)]_vars

\* C10: the retry decision is that of the table whatever the body; the error
\* kind is that of the table when the body parses as a JSON error object, and
\* NetworkError carrying the status when it does not.
C10_DecisionTable ==
    [][HTTPErrorStep =>
          /\ reqErr'.kind = IF ParsesAsObject(lastResp'.body)
                            THEN TableKind(lastResp'.status) ELSE "NetworkError"
          /\ reqErr'.kind = "NetworkError" => reqErr'.status = lastResp'.status
          /\ TableDecision]_vars

\* a 429 whose body is not JSON gave a NetworkError and is being retried
C10_Witness ==
    /\ pc = "wait" /\ lastResp = Response("http", 429, "garbage", None)
    /\ reqErr = NewNetworkError(429, None)

\* the step is the end of a backoff wait by its timer
WaitEndStep == pc = "wait" /\ pc' = "attempt"

\* C11: after an attempt that received a 429 whose body carries a retry-after
\* of R > 0 seconds, the wait before the next attempt lasts R seconds or more.
C11_AsClaimed ==
    [][(WaitEndStep /\ lastResp.type = "http" /\ lastResp.status = 429
            /\ RetryAfterOf(lastResp.body) > 0) =>
          lastWait' >= 1000 * RetryAfterOf(lastResp.body)]_vars

\* C12: while the call waits between two attempts and the context has ended,
\* the only step of the call is the return of the context's error: the wait
\* is not completed, no attempt is made.
C12_CancellableWait ==
    [][(pc = "wait" /\ ctxDone) =>
          /\ pc' = "done" /\ result' = ContextError
          /\ nAttempts' = nAttempts /\ nWaits' = nWaits]_vars

\* a call cancelled in its second wait has returned the context's error
\* with a retry left
C12_Witness ==
    /\ pc = "done" /\ result = ContextError /\ ctxDone
    /\ nAttempts = 2 /\ nWaits = 1 /\ attempt = 2 /\ retryAttempts >= 2

\* C13: an attempt whose context ends while the request is in flight ends the
\* call with the context's error itself, not with a NetworkError.
C13_AsClaimed ==
    [][(AttemptStep /\ lastResp'.type = "transport" /\ lastResp'.cause = "ctx") =>
          (pc' = "done" /\ result' = ContextError)]_vars

\* ---------------------------------------------- claims, batches and gates
\* the step is an evaluation call, from its entry to its return
EvalStep == lastEval = NoEval /\ lastEval' # NoEval

\* the cache key an evaluation call derives for entity key k
KeyOf(op, k, userID) ==
    IF op \in {"EvaluateFlag", "EvaluateFlags"}
    THEN generateCacheKey(k, userID, Environment)
    ELSE generateGateCacheKey(k, userID, Environment)

\* the cache holds an entry under key that has not expired
Live(key) == key \in DOMAIN items /\ now <= items[key].expiration

\* the requested keys of the step's call that have no live entry when the
\* call is made, in the order of the request
Missed ==
    SelectSeq(lastEval'.keys,
              LAMBDA k : ~Live(KeyOf(lastEval'.op, k, lastEval'.user)))

\* C14: a batch evaluation of flags or of gates calls the network if and
\* only if some requested key has no live entry, and the one call it makes
\* carries exactly the requested keys without a live entry.
C14_OneBatchedCall ==
    [][(EvalStep /\ lastEval'.op \in {"EvaluateFlags", "EvaluateGates"}) =>
          /\ lastEval'.fetched = (Missed # <<>>)
          /\ lastEval'.fetchKeys = Missed
          /\ lastEval'.hits + lastEval'.misses = Len(lastEval'.keys)]_vars

\* a batch of two gates found one in the cache and asked for the other
C14_Witness ==
    /\ lastEval # NoEval /\ lastEval.op = "EvaluateGates"
    /\ Len(lastEval.keys) = 2 /\ lastEval.fetched
    /\ lastEval.fetchKeys = <<lastEval.keys[2]>>

\* the uncached keys of the step's batch for which the backend's response
\* has no entry, or an entry that reports an error
Unanswered ==
    {k \in Range(lastEval'.fetchKeys) :
        \/ k \notin DOMAIN lastEval'.resp.results
        \/ lastEval'.resp.results[k] = "errored"}

\* C15: in a batch of flags whose one call returns a response that reports
\* an error for, or omits, exactly one uncached key, that key gets a default
\* result with an error, every other uncached key gets api_evaluation with
\* the backend's value, and every key that had a live entry gets that entry's
\* value as a cache hit.
C15_AsClaimed ==
    [][(EvalStep /\ lastEval'.op = "EvaluateFlags" /\ lastEval'.fetched
            /\ lastEval'.fetchErr = None /\ Cardinality(Unanswered) = 1) =>
          \A k \in Range(lastEval'.keys) :
             LET r == lastEval'.results[k]
                 key == generateCacheKey(k, lastEval'.user, Environment)
             IN  IF k \in Unanswered
                 THEN r.Reason \in {"error_fallback", "not_found"} /\ r.Error # None
                 ELSE IF k \in Range(lastEval'.fetchKeys)
                 THEN /\ r.Reason = "api_evaluation" /\ r.Error = None
                      /\ r.Value = BoolV(lastEval'.resp.results[k] = "enabled")
                 ELSE r = [items[key].value EXCEPT !.CacheHit = TRUE]]_vars

\* the step is a single-key evaluation of a key with a live entry
SingleHitStep ==
    /\ EvalStep /\ lastEval'.op \in {"EvaluateFlag", "EvaluateGate"}
    /\ Live(KeyOf(lastEval'.op, lastEval'.keys[1], lastEval'.user))

\* the step is an evaluation that fetched entity key k with success
FetchedOK(k) ==
    /\ EvalStep /\ lastEval'.fetched /\ lastEval'.fetchErr = None
    /\ IF lastEval'.op \in {"EvaluateFlag", "EvaluateGate"} THEN k = lastEval'.keys[1]
       ELSE k \in DOMAIN lastEval'.resp.results

\* what the step's call returned for entity key k, as a cache value
ReturnedValue(k) ==
    IF lastEval'.op \in {"EvaluateFlag", "EvaluateFlags"} THEN lastEval'.results[k].Value
    ELSE BoolV(lastEval'.results[k])

SetStep == tick' = tick + 1 /\ lastOp'.op = "Set"

\* the latest expiration any Set can have given by the end of the clock
LatestExpiration == MaxTime + DefaultTTL + 1

\* C17: a Set with ttl = 0, on the cache or through the manager, leaves the
\* entry (when the capacity lets it stay) with expiration = the time of the
\* Set + the default TTL; every entry of the cache has a finite expiration,
\* at most the latest Set time plus the longest ttl; and a Get after an
\* entry's expiration does not return it.
C17_NoPermanentEntries ==
    [][/\ (SetStep /\ lastOp'.ttl = 0 /\ lastOp'.key \in DOMAIN items') =>
            /\ items'[lastOp'.key].expiration = now + DefaultTTL
            /\ items'[lastOp'.key].value = lastOp'.value
       /\ (SetStep /\ maxSize >= 1) => lastOp'.key \in DOMAIN items'
       /\ \A k \in DOMAIN items' :
            /\ items'[k].expiration \in Nat
            /\ items'[k].expiration <= LatestExpiration
       /\ (tick' = tick + 1 /\ lastOp'.op = "Get" /\ lastOp'.present
            /\ now > items[lastOp'.key].expiration) => ~lastOp'.found]_vars

\* an entry stored with ttl = 0 at time 0 was looked up after its
\* default TTL had passed and was not returned
C17_Witness ==
    /\ lastOp.op = "Get" /\ ~lastOp.found /\ lastOp.present
    /\ lastOp.key \in DOMAIN items
    /\ items[lastOp.key].expiration = DefaultTTL
    /\ now = DefaultTTL + 1

\* ------------------------------------------------- claims, PersistentCache
\* the step ends the process and constructs a new store on the same path
LoadStep == tick' = tick + 1 /\ lastOp'.op = "NewPersistentCache"

\* every entry of the cache has been written through: no call is under way
\* and the file at the path holds the cache as it is
WrittenThrough ==
    /\ \A g \in Procs : ppc[g] = "idle"
    /\ files[filePath] = Marshal(items)

\* C18 as claimed: when a new store is constructed on the path of a store
\* whose entries were written through, with a capacity not smaller than the
\* number of entries, the new store holds exactly the entries that have not
\* expired at that time, each under its key with the value that was stored.
C18_AsClaimed ==
    [][(LoadStep /\ WrittenThrough /\ maxSize' >= Size(items)) =>
          items' = [k \in {x \in DOMAIN items : ~Expired(items[x], now)} |->
                        items[k]]]_vars

\* C19: no step changes the file at the configured path except the rename
\* at the end of saveToFile, which replaces it by the complete encoding of
\* the items that call copied; a failed open, write or rename and the end of
\* the process at any point leave it as it was, and it is never a file whose
\* write did not complete.
C19_CrashSafe ==
    [][/\ \/ files'[filePath] = files[filePath]
          \/ \E g \in Procs :
                /\ ppc[g] = "written" /\ ppc'[g] = "idle"
                /\ files'[filePath] = Marshal(snap[g])
       /\ files'[filePath].kind \in {"none", "json"}]_vars

\* the process ended between the creation of the temp file and the end of
\* its write; the new process found the previous snapshot at the path and
\* loaded an entry from it
C19_Witness ==
    /\ lastOp.op = "NewPersistentCache"
    /\ files[tempFile].kind = "partial"
    /\ files[filePath].kind = "json"
    /\ items # EmptyItems

\* C20: under every interleaving of two goroutines' Set, Delete, Clear and
\* sweep calls, the items a saveToFile copies are the whole of
\* MemoryCache.items at the instant of the copy and stay so until they are
\* published; what is published is their encoding; a publish never replaces
\* a snapshot by one copied earlier; and when no call is under way the file
\* holds the cache as it is.
C20_NoTornSnapshot ==
    [][/\ \A g \in Procs :
            /\ (ppc[g] = "save" /\ ppc'[g] = "copied") =>
                  (snap'[g] = items /\ items' = items /\ snapVer'[g] = tick)
            /\ (ppc[g] \in {"copied", "created"} /\ ppc'[g] \in {"created", "written"}) =>
                  (snap'[g] = snap[g] /\ snapVer'[g] = snapVer[g])
            /\ (ppc[g] = "written" /\ ppc'[g] = "idle") =>
                  /\ files'[filePath] = Marshal(snap[g])
                  /\ snapVer[g] >= fileVer
                  /\ fileVer' = snapVer[g]
       /\ ((\A g \in Procs : ppc'[g] = "idle") /\ tick' > 0) =>
             files'[filePath] = Marshal(items')]_vars

\* a goroutine is about to publish its copy, on top of an earlier snapshot,
\* while a second goroutine has changed the cache since and waits to save
C20_Witness ==
    /\ ppc[1] = "written" /\ ppc[2] = "save"
    /\ snap[1] # items
    /\ snap[1] # EmptyItems
    /\ files[filePath].kind = "json"

\* the step is goroutine g's saveToFile returning after a failed open, write
\* or rename
SaveFailStep(g) ==
    /\ ppc[g] \in {"copied", "created", "written"} /\ ppc'[g] = "idle"
    /\ tick' = tick
    /\ fileVer' # snapVer[g]

\* the step is a step of goroutine g's saveToFile
SaveStep(g) ==
    /\ ppc[g] \in {"save", "copied", "created", "written"}
    /\ ppc'[g] # ppc[g] /\ tick' = tick

\* C21: when the open or the write of the temp file or the rename fails,
\* saveToFile returns, with its lock released, to a Set, Delete or Clear that
\* returns nothing to its caller; the file at the path is as it was before
\* the call; and no step of saveToFile, failed or not, changes the entries
\* or the recency list the call left in memory.
C21_WriteFailureAbsorbed ==
    [][\A g \in Procs :
          /\ SaveFailStep(g) =>
                /\ files'[filePath] = files[filePath]
                /\ saveMutex' = 0
                /\ \A h \in Procs : ppc'[h] \in {"idle", "save"}
          /\ SaveStep(g) =>
                /\ items' = items /\ lruList' = lruList /\ maxSize' = maxSize
                /\ files'[filePath].kind \in {"none", "json"}]_vars

\* a Set saved and published an entry; a second Set's save failed during
\* the write, and the cache holds both entries while the file holds one
C21_Witness ==
    /\ lastOp.op = "Set" /\ ppc[1] = "idle"
    /\ files[tempFile].kind = "partial"
    /\ files[filePath].kind = "json"
    /\ Size(items) = 2
    /\ Cardinality(DOMAIN files[filePath].data) = 1

\* C22: a NewPersistentCache on a path where no file is, or one that cannot
\* be read or does not parse, returns a store in the state of a new one: no
\* entries (Size() = 0), an empty recency list, no removal pending, the lock
\* free, the capacity it was given; and the file is left as it was.
C22_DamagedFileStartsEmpty ==
    [][(LoadStep /\ files[filePath].kind # "json") =>
          /\ items' = EmptyItems /\ Size(items') = 0
          /\ lruList' = <<>> /\ pendingDelete' = {}
          /\ saveMutex' = 0 /\ \A g \in Procs : ppc'[g] = "idle"
          /\ maxSize' \in 1..MaxCap
          /\ files' = files]_vars

\* a store was constructed on a file that held an entry and had its end cut
\* off, and started empty
C22_Witness ==
    /\ lastOp.op = "NewPersistentCache"
    /\ files[filePath].kind = "partial"
    /\ files[filePath].data # EmptyItems
    /\ \E k \in DOMAIN files[filePath].data : now < files[filePath].data[k].expiration
    /\ items = EmptyItems

\* ------------------------------------------------------- claims, lifecycle
\* C23: the loop of StartCleanup returns only after the stop signal; once
\* stopCh is closed the loop eventually returns, whether or not the ticker
\* fires again; when it has returned its ticker is stopped; and after it has
\* returned it starts no sweep: it stays returned and removes no entry.
C23_SweepShutdown ==
    /\ (stopCh = "closed") ~> (sweepPc = "returned")
    /\ [](sweepPc = "returned" => (stopCh = "closed" /\ ~tickerOn))
    /\ [](sweepPc # "returned" => tickerOn)
    /\ [][sweepPc = "returned" =>
            (sweepPc' = "returned" /\ ~tickerOn' /\ tickPending' = tickPending)]_sweepVars

\* the client was closed while a sweep was running on a cache that held an
\* entry; the loop finished the sweep and returned with its ticker stopped
\* and no tick waiting
C23_Witness ==
    /\ sweepPc = "returned" /\ closed /\ ~tickerOn /\ ~tickPending
    /\ items # EmptyItems

\* --------------------------------------------------- claims, concurrency
\* goroutine g is inside a method at a point where it changes the recency
\* list: the MoveToFront of a Get hit, or the body of a writer
InListMutation(g) == cpc[g] \in {"move", "Set", "Delete", "Clear", "CleanupExpired"}

\* C24 as claimed: no two goroutines are inside a mutation of the recency
\* list at the same time.
C24_AsClaimed ==
    \A g, h \in Procs : (g # h) => ~(InListMutation(g) /\ InListMutation(h))

\* the step is goroutine g's Get returning not-found for an expired entry
ExpiredGetStep(g) ==
    /\ cpc[g] = "get" /\ cpc'[g] = "idle"
    /\ ckey[g] \in DOMAIN items

\* C29: a Get that finds an expired entry returns with the map and the
\* recency list as they were, the entry still in the map and its removal
\* scheduled but not run, and no step of a Get up to that return changes
\* the map; the removal runs in a step of its own, when no goroutine holds
\* the lock in either mode, so after the Get has released its read lock.
C29_LazyExpiry ==
    [][/\ \A g \in Procs :
            /\ ExpiredGetStep(g) =>
                  /\ items' = items /\ lruList' = lruList
                  /\ ckey[g] \in DOMAIN items'
                  /\ ckey[g] \in pendingDelete'
                  /\ g \in rwReaders /\ g \notin rwReaders'
            /\ (cpc[g] \in {"get", "move"} /\ cpc'[g] # cpc[g]) => items' = items
       /\ (pendingDelete' # pendingDelete /\ pendingDelete' \subseteq pendingDelete) =>
            /\ rwReaders = {} /\ rwWriter = 0
            /\ \A g \in Procs : cpc[g] \notin {"get", "move"}
            /\ \A g \in Procs : cpc'[g] = cpc[g]]_vars

\* a Get has returned for an expired entry: no goroutine is inside the
\* cache, the entry is still in the map and its removal is pending
C29_Witness ==
    /\ \A g \in Procs : cpc[g] = "idle"
    /\ \E key \in pendingDelete : key \in DOMAIN items /\ Expired(items[key], now)

\* --------------------------------------------------------- claims, metrics
\* C25: at every point of every sequence of logical calls, the collector's
\* APICalls is the number of attempts made so far and its ErrorCount the
\* number of those that failed; a backoff wait, a cancelled wait and the
\* return of a call count nothing.
C25_EveryAttemptCounted ==
    /\ metrics.apiCalls = reported.attempts
    /\ metrics.errorCount = reported.failed
    /\ metrics.errorCount <= metrics.apiCalls

\* two logical calls are over: the first failed twice, waited and succeeded
\* at its third attempt, the second had its wait cancelled after one failure
C25_Witness ==
    /\ reported.calls = 2 /\ pc = "done" /\ result = ContextError
    /\ nAttempts = 1 /\ nWaits = 0
    /\ metrics.apiCalls = 4 /\ metrics.errorCount = 3

\* ------------------------------------------------- claims, Set then Get
\* the step is a call of Set or of Get on a MemoryCache
CacheCall(op) == tick' = tick + 1 /\ lastOp'.op = op

\* the step is a call of Delete or of Clear on a MemoryCache
Removal(op) == tick' = tick /\ lastOp'.op = op

\* C26: a Set of k leaves, when k is not evicted at once, exactly the given
\* value and the expiry now + ttl under k, whether k was present or not; only
\* a Set of k changes or creates the entry of k, and only a call of Delete, a
\* Clear, an eviction or the removal of an expired entry takes it away (the
\* goroutine an earlier Get started removes an entry set since); a Get of k
\* made before the entry's expiry returns found with exactly the entry's
\* value, and a Get of a key with no entry, among them every key never set,
\* returns not-found.
C26_AsClaimed ==
    [][/\ CacheCall("Set") =>
            LET k == lastOp'.key
                ttl == IF lastOp'.ttl = 0 THEN DefaultTTL ELSE lastOp'.ttl
            IN  k \in DOMAIN items' =>
                    items'[k] = [value |-> lastOp'.value, expiration |-> now + ttl]
       /\ \A k \in DOMAIN items' :
            (k \notin DOMAIN items \/ items'[k] # items[k]) =>
                (CacheCall("Set") /\ lastOp'.key = k)
       /\ \A k \in (DOMAIN items) \ DOMAIN items' :
            \/ Removal("Delete") /\ lastOp'.key = k
            \/ Removal("Clear")
            \/ CacheCall("Set") /\ k \in lastOp'.evicted
            \/ Expired(items[k], now)
       /\ CacheCall("Get") =>
            LET k == lastOp'.key
            IN  /\ (k \in DOMAIN items /\ now < items[k].expiration) =>
                     (lastOp'.found /\ lastOp'.value = items[k].value)
                /\ k \notin DOMAIN items =>
                     (~lastOp'.found /\ lastOp'.value = ZeroResult)
                /\ items' = items
      ]_vars

\* ------------------------------------------------------ claims, MockClient
\* the dynamic type an accessor of the MockClient asserts
AccessorType(acc) ==
    CASE acc = "Bool" -> "bool"
      [] acc = "String" -> "string"
      [] acc = "Int" -> "int"
      [] acc = "Float" -> "float64"

\* what the gate and the batch evaluation of the MockClient return
MockGateAndBatch ==
    /\ lastMock.op = "EvaluateGate" =>
         LET g == lastMock.keys[1]
         IN  lastMock.returned =
                BoolV(IF g \in DOMAIN gateValues THEN gateValues[g] ELSE FALSE)
    /\ lastMock.op = "EvaluateFlags" =>
         /\ DOMAIN lastMock.results = Range(lastMock.keys)
         /\ \A k \in Range(lastMock.keys) :
              /\ lastMock.results[k].Key = k
              /\ lastMock.results[k].Value =
                    IF k \in DOMAIN flagValues THEN flagValues[k] ELSE NilV

\* C27 as stated: a typed accessor returns the configured value when it has
\* exactly the accessor's type and the default otherwise.
C27_AsClaimed ==
    /\ MockGateAndBatch
    /\ lastMock.op = "EvaluateFlag" =>
         LET k == lastMock.keys[1]
             acc == lastMock.accessor
         IN  IF acc \in {"Flag", "JSON"}
             THEN lastMock.returned = IF k \in DOMAIN flagValues
                                      THEN flagValues[k] ELSE lastMock.defaultValue
             ELSE lastMock.returned =
                    IF k \in DOMAIN flagValues /\ flagValues[k][1] = AccessorType(acc)
                    THEN flagValues[k] ELSE lastMock.defaultValue

\* C27: EvaluateFlag and the JSON accessor return the value last configured
\* for the key, the default when none is; the Bool and String accessors return
\* it when it is a bool, a string, the default otherwise; the Int and Float
\* accessors return it converted to their type when it is an int, an int64 or
\* a float64 (a float64 loses its fraction as an int), the default otherwise;
\* EvaluateGate returns the configured gate value, false when none is; a batch
\* holds one result per distinct requested key, nil for a key not configured.
C27_MockEvaluation ==
    /\ MockGateAndBatch
    /\ lastMock.op = "EvaluateFlag" =>
         LET k == lastMock.keys[1]
             acc == lastMock.accessor
             d == lastMock.defaultValue
             set == k \in DOMAIN flagValues
             v == flagValues[k]
         IN  /\ lastMock.results[k].Value = IF set THEN v ELSE d
             /\ lastMock.results[k].Reason = IF set THEN "mock_rule" ELSE "default"
             /\ lastMock.returned =
                  CASE acc \in {"Flag", "JSON"} -> IF set THEN v ELSE d
                    [] acc \in {"Bool", "String"} ->
                         IF set /\ v[1] = AccessorType(acc) THEN v ELSE d
                    [] acc = "Int" ->
                         IF set /\ v[1] \in {"int", "int64"} THEN IntV(v[2])
                         ELSE IF set /\ v[1] = "float64" THEN IntV(v[2] \div 10)
                         ELSE d
                    [] acc = "Float" ->
                         IF set /\ v[1] = "float64" THEN v
                         ELSE IF set /\ v[1] \in {"int", "int64"} THEN FloatV(v[2] * 10)
                         ELSE d

\* the Int accessor returned 2 for a flag configured with the float64 2.5,
\* set after another value
C27_Witness ==
    /\ lastMock.op = "EvaluateFlag" /\ lastMock.accessor = "Int"
    /\ lastMock.keys[1] \in DOMAIN flagValues
    /\ flagValues[lastMock.keys[1]] = FloatV(25)
    /\ lastMock.returned = IntV(2)
    /\ lastMock.defaultValue = IntV(7)

\* ------------------------------------------------------- claims, backoff
\* min(100ms * 2^n, 30s), in milliseconds
IdealBackoffMs(n) ==
    IF n >= 9 THEN MaxBackoffMs ELSE Min(BaseBackoffMs * Pow2(n), MaxBackoffMs)

\* C28: the delay computed for every attempt number n >= 1 up to the
\* configured retry count is at least three quarters and at most five quarters
\* of min(100ms * 2^n, 30s); it is not negative and not above 37.5 seconds.
C28_AsClaimed ==
    slept.attempt >= 1 =>
        LET ideal == IdealBackoffMs(slept.attempt)
        IN  /\ slept.delay.m >= 0
            /\ ~Greater(slept.delay, Ms(37500))
            /\ GreaterEq(slept.delay, Ms(ideal - ideal \div 4))
            /\ ~Greater(slept.delay, Ms(ideal + ideal \div 4))

\* ------------------------------------------------- claims, write-through
\* the step is the return of goroutine g's Set, Delete or Clear after a
\* saveToFile whose open, write and rename succeeded
SavedStep(g) ==
    /\ ppc[g] = "written" /\ ppc'[g] = "idle"
    /\ tick' = tick /\ fileVer' = snapVer[g]

\* C30: a Set, a Delete and a Clear of the durable store go on to saveToFile
\* before they return; saveToFile copies the whole of the entries in memory;
\* and when the call returns after a save without failure, no other
\* goroutine having changed the cache since the copy, the file at the path is
\* a snapshot with exactly the keys in memory, each with the expiry instant
\* in memory and the JSON form of the value in memory.
C30_WriteThrough ==
    [][/\ (tick' = tick + 1 /\ lastOp'.op \in {"Set", "Delete", "Clear"}) =>
             \E g \in Procs : ppc[g] = "idle" /\ ppc'[g] = "save"
       /\ \A g \in Procs :
          /\ (ppc[g] = "save" /\ ppc'[g] = "copied") =>
                (snap'[g] = items /\ items' = items)
          /\ (SavedStep(g) /\ snap[g] = items) =>
                /\ files'[filePath].kind = "json"
                /\ DOMAIN files'[filePath].data = DOMAIN items'
                /\ \A k \in DOMAIN items' :
                      /\ files'[filePath].data[k].expiration = items'[k].expiration
                      /\ files'[filePath].data[k].value =
                            encodeResult(items'[k].value)]_vars

\* a Delete has returned after its save: of the two entries an earlier Set
\* left in memory and in the file, one is left in both
C30_Witness ==
    /\ lastOp.op = "Delete" /\ ppc[1] = "idle" /\ fileVer = tick
    /\ Size(items) = 1
    /\ files[filePath].kind = "json"
    /\ DOMAIN files[filePath].data = DOMAIN items
    /\ \A k \in DOMAIN items :
          files[filePath].data[k].expiration = items[k].expiration

\* C31: for the attempt number of a computed delay, two draws of
\* rand.Float64() exist for which calculateBackoff returns different delays.
C31_AsClaimed ==
    slept.attempt >= 1 =>
        \E r1, r2 \in RandFloats :
            LET d1 == calculateBackoff(slept.attempt, r1)
                d2 == calculateBackoff(slept.attempt, r2)
            IN  /\ d1 # d2
                /\ d1.e = d2.e /\ d1.m < d2.m

\* ------------------------------------------- claims, concurrent evaluations
\* both goroutines have completed a successful fetch of the same key, and
\* the cache has not been cleared since either looked the key up
BothFetched ==
    /\ \A g \in Procs : /\ evalProc[g].pc = "done" /\ evalProc[g].fetched
                        /\ evalProc[g].result.Error = None
                        /\ evalProc[g].start > fetchHist.clearTick
    /\ evalProc[1].key = evalProc[2].key

\* C32: once two concurrent evaluations of a key have both fetched and
\* completed, the entry of the key, as long as it is in the cache, is the one
\* of the two results whose EvaluatedAt is the later.
C32_AsClaimed ==
    (BothFetched /\ evalProc[1].key \in DOMAIN items) =>
        \A g \in Procs :
            items[evalProc[1].key].value.EvaluatedAt >= evalProc[g].result.EvaluatedAt

\* C39: after a RefreshCache every entry of the cache was stored by an
\* evaluation that looked the cache up after the clear.
C39_AsClaimed ==
    \A k \in DOMAIN items : fetchHist.origin[k] > fetchHist.clearTick

\* ------------------------------------------ claims, the removal goroutine
\* C33: the removal that a Get of an expired entry scheduled takes out of
\* the cache nothing but an expired entry: an entry a Set has stored under
\* the key since is still there after the removal has run, and a Get then
\* finds it.
C33_AsClaimed ==
    [][(pendingDelete' # pendingDelete /\ pendingDelete' \subseteq pendingDelete) =>
          /\ \A k \in (DOMAIN items) \ DOMAIN items' : Expired(items[k], now)
          /\ \A k \in pendingDelete \ pendingDelete' :
                (k \in DOMAIN items /\ ~Expired(items[k], now)) =>
                    Get(items', lruList', k, now).found]_vars

\* ------------------------------------------------ claims, batch result shape
\* the cache keys of the requested keys of the step's batch call
RequestedCacheKeys ==
    {KeyOf(lastEval'.op, k, lastEval'.user) : k \in Range(lastEval'.keys)}

\* C34: whatever the backend answers, the map a batch call (EvaluateFlags,
\* EvaluateGates) returns has exactly the requested keys, every key that
\* had a live cache entry keeps the result served from it, and the call
\* writes no cache entry under a key that was not requested.
C34_AsClaimed ==
    [][(EvalStep /\ lastEval'.op \in {"EvaluateFlags", "EvaluateGates"}) =>
          /\ DOMAIN lastEval'.results = Range(lastEval'.keys)
          /\ \A k \in Range(lastEval'.keys) \ Range(lastEval'.fetchKeys) :
                LET key == KeyOf(lastEval'.op, k, lastEval'.user)
                IN  lastEval'.results[k] =
                       IF lastEval'.op = "EvaluateFlags"
                       THEN [items[key].value EXCEPT !.CacheHit = TRUE]
                       ELSE IsBool(items[key].value.Value)
                               /\ items[key].value.Value[2]
          /\ (DOMAIN items') \ (DOMAIN items) \subseteq RequestedCacheKeys]_vars

\* ------------------------------------------------- claims, loading the file
\* C35: an entry inserted by loadFromFile expires in memory no later than
\* the expiration persisted for it, whatever time passes between the expiry
\* check, the computation of the TTL and the insertion.
C35_AsClaimed ==
    \A key \in DOMAIN items :
       items[key].expiration <= files[filePath].data[key].expiration

\* ------------------------------------------------- claims, Set terminates
\* C36: with any capacity, 0 and negative ones included, a Set that has
\* taken the lock leaves its eviction loop and releases the lock.
C36_AsClaimed == \A g \in Procs : (rwWriter = g) ~> (rwWriter # g)

\* -------------------------------------------- claims, locks of the store
\* C37: under any interleaving of Get, Set, Delete, Clear, Size, Keys, the
\* sweep and the removal goroutine, every operation on the durable store
\* gets the locks it waits for and completes.
C37_DeadlockFree ==
    /\ \A g \in LockProcs : (lockSt[g].pc # "idle") ~> (lockSt[g].pc = "idle")
    /\ \A key \in LockKeys : (key \in pendingDelete) ~> (key \notin pendingDelete)

\* a save holds the persistence mutex and waits for the read lock while a
\* writer is inside the memory cache and another call waits for the mutex
C37_Witness ==
    \E g, h, i \in LockProcs :
       /\ lockSt[g].pc = "copylock" /\ saveMutex = g
       /\ rwWriter = h
       /\ lockSt[i].pc = "mutex"

\* ------------------------------------------- claims, metrics snapshots
\* C38: under any interleaving of RecordAPICall, Reset and GetMetrics, a
\* snapshot returned by GetMetrics has ErrorCount <= APICalls and an error
\* rate of at most 100%.
C38_AsClaimed ==
    lastMetrics.taken =>
       /\ lastMetrics.ErrorCount <= lastMetrics.APICalls
       /\ lastMetrics.ErrorRate <= 100

\* ---------------------------------------------------- claims, Close
\* C40: whatever the number of Close calls, one after the other or at once,
\* stopCh is closed exactly once, every Close that has ended returned nil,
\* none panicked, and once closed is true it stays true.
C40_CloseOnce ==
    [][/\ closeSt'.panics = 0
       /\ closeSt'.closes <= 1
       /\ (closeSt'.returned > 0 => closeSt'.closes = 1 /\ closed' /\ stopCh' = "closed")
       /\ (closed => closed')]_vars

\* two goroutines were inside Close at once and both have returned
C40_Witness ==
    /\ closeSt.returned >= 2 /\ closeSt.closes = 1 /\ tick = 2
    /\ \A g \in Procs : closeSt.pc[g] = "idle"
====
